---- MODULE Spec2Model ----
(***************************************************************************)
(* Folder-classification and tag-hierarchy synchronisation of the Drive    *)
(* archive: the DriveSync walker (scripts/sync-drive.ts), the copy-based   *)
(* DriveMigrator, the seed script and the tag classifier, over one shared  *)
(* Tag / Resource database.                                                *)
(*                                                                         *)
(* Strings are tuples of one-character strings, so that trimming, slug     *)
(* generation, prefix tests and the regular expressions of the classifier  *)
(* are computed character by character as the code computes them.          *)
(***************************************************************************)
EXTENDS Integers, Sequences, FiniteSets, TLC

(***************************************************************************)
(* Characters and JavaScript string primitives                             *)
(***************************************************************************)
UpperSeq == <<"A","B","C","D","E","F","G","H","I","J","K","L","M",
              "N","O","P","Q","R","S","T","U","V","W","X","Y","Z">>
LowerSeq == <<"a","b","c","d","e","f","g","h","i","j","k","l","m",
              "n","o","p","q","r","s","t","u","v","w","x","y","z">>
DigitSet == {"0","1","2","3","4","5","6","7","8","9"}
UpperSet == {UpperSeq[i] : i \in 1..Len(UpperSeq)}
LowerSet == {LowerSeq[i] : i \in 1..Len(LowerSeq)}

LowerOf == [c \in UpperSet |-> LowerSeq[CHOOSE i \in 1..Len(UpperSeq) : UpperSeq[i] = c]]

ToLower(c) == IF c \in UpperSet THEN LowerOf[c] ELSE c

IsSpace(c) == c \in {" ", "\t", "\n"}
IsDigit(c) == c \in DigitSet
IsWordChar(c) == c \in UpperSet \cup LowerSet \cup DigitSet \cup {"_"}
AnyChar(c) == c # "\n"
IsDigitSpaceDash(c) == IsDigit(c) \/ IsSpace(c) \/ c = "-"

ToLowerCase(s) == [i \in 1..Len(s) |-> ToLower(s[i])]

RECURSIVE TrimStart(_)
TrimStart(s) == IF s # <<>> /\ IsSpace(Head(s)) THEN TrimStart(Tail(s)) ELSE s

RECURSIVE TrimEnd(_)
TrimEnd(s) ==
    IF s # <<>> /\ IsSpace(s[Len(s)]) THEN TrimEnd(SubSeq(s, 1, Len(s) - 1)) ELSE s

Trim(s) == TrimEnd(TrimStart(s))

StartsWith(s, prefix) ==
    /\ Len(prefix) <= Len(s)
    /\ \A i \in 1..Len(prefix) : s[i] = prefix[i]

\* s.replace(/\s+/g, "-"): every maximal run of whitespace becomes one hyphen
RECURSIVE ReplaceSpaceRuns(_)
ReplaceSpaceRuns(s) ==
    IF s = <<>> THEN <<>>
    ELSE IF IsSpace(Head(s))
         THEN <<"-">> \o ReplaceSpaceRuns(TrimStart(s))
         ELSE <<Head(s)>> \o ReplaceSpaceRuns(Tail(s))

\* s.replace(/[^\w-]/g, "")
StripNonWord(s) == SelectSeq(s, LAMBDA c : IsWordChar(c) \/ c = "-")

\* s.replace(/[^a-z0-9]+/g, "-"): every maximal run of other characters becomes one hyphen
IsLowerAlnum(c) == c \in LowerSet \cup DigitSet

RECURSIVE DropNonAlnum(_)
DropNonAlnum(s) == IF s # <<>> /\ ~IsLowerAlnum(Head(s)) THEN DropNonAlnum(Tail(s)) ELSE s

RECURSIVE ReplaceNonAlnumRuns(_)
ReplaceNonAlnumRuns(s) ==
    IF s = <<>> THEN <<>>
    ELSE IF ~IsLowerAlnum(Head(s))
         THEN <<"-">> \o ReplaceNonAlnumRuns(DropNonAlnum(s))
         ELSE <<Head(s)>> \o ReplaceNonAlnumRuns(Tail(s))

\* s.replace(/(^-|-$)/g, "")
StripEdgeHyphens(s) ==
    LET a == IF s # <<>> /\ Head(s) = "-" THEN Tail(s) ELSE s
    IN  IF a # <<>> /\ a[Len(a)] = "-" THEN SubSeq(a, 1, Len(a) - 1) ELSE a

(***************************************************************************)
(* Regular expressions: a pattern maps a set of start positions to the set *)
(* of positions at which a match of it can end (all backtracking choices). *)
(***************************************************************************)
Lit(s, P, w) ==
    {p + Len(w) : p \in {q \in P : /\ q + Len(w) - 1 <= Len(s)
                                   /\ \A i \in 1..Len(w) : ToLower(s[q + i - 1]) = w[i]}}

One(s, P, C(_)) == {p + 1 : p \in {q \in P : q <= Len(s) /\ C(s[q])}}

Star(s, P, C(_)) ==
    {q \in 1..(Len(s) + 1) : \E p \in P : p <= q /\ \A k \in p..(q - 1) : C(s[k])}

Plus(s, P, C(_)) == Star(s, One(s, P, C), C)

AtEnd(s, P) == (Len(s) + 1) \in P

Spaces(s, P) == Star(s, P, IsSpace)

(***************************************************************************)
(* The classifier: TagPatterns and categorizeFolder                        *)
(***************************************************************************)
\* /^(Primary|Scholarship|Secondary|O\/L|A\/L|[\d\s\-]+Class)\s*Subjects$/i
LevelSubjectsPattern(s) ==
    LET head == Lit(s, {1}, <<"p","r","i","m","a","r","y">>)
                \cup Lit(s, {1}, <<"s","c","h","o","l","a","r","s","h","i","p">>)
                \cup Lit(s, {1}, <<"s","e","c","o","n","d","a","r","y">>)
                \cup Lit(s, {1}, <<"o","/","l">>)
                \cup Lit(s, {1}, <<"a","/","l">>)
                \cup Lit(s, Plus(s, {1}, IsDigitSpaceDash), <<"c","l","a","s","s">>)
    IN  AtEnd(s, Lit(s, Spaces(s, head), <<"s","u","b","j","e","c","t","s">>))

\* /^(Primary|Scholarship|Secondary)$/i
LevelBarePattern(s) ==
    AtEnd(s, Lit(s, {1}, <<"p","r","i","m","a","r","y">>)
             \cup Lit(s, {1}, <<"s","c","h","o","l","a","r","s","h","i","p">>)
             \cup Lit(s, {1}, <<"s","e","c","o","n","d","a","r","y">>))

\* /^Grade\s*(\d{1,2}|0\d)(\s|$)/i
GradePattern(s) ==
    LET g    == Spaces(s, Lit(s, {1}, <<"g","r","a","d","e">>))
        d1   == One(s, g, IsDigit)
        d2   == One(s, d1, IsDigit)
        zd   == One(s, Lit(s, g, <<"0">>), IsDigit)
        num  == d1 \cup d2 \cup zd
    IN  One(s, num, IsSpace) # {} \/ AtEnd(s, num)

\* /^(Science|Commerce|Arts|Technology|Tech)(\s+Stream)?$|^(GIT|General\s*English|General\s*Information\s*Technology)$/i
StreamPattern(s) ==
    LET kw == Lit(s, {1}, <<"s","c","i","e","n","c","e">>)
              \cup Lit(s, {1}, <<"c","o","m","m","e","r","c","e">>)
              \cup Lit(s, {1}, <<"a","r","t","s">>)
              \cup Lit(s, {1}, <<"t","e","c","h","n","o","l","o","g","y">>)
              \cup Lit(s, {1}, <<"t","e","c","h">>)
        qual == Lit(s, Plus(s, kw, IsSpace), <<"s","t","r","e","a","m">>)
        gen  == Spaces(s, Lit(s, {1}, <<"g","e","n","e","r","a","l">>))
        exact == Lit(s, {1}, <<"g","i","t">>)
                 \cup Lit(s, gen, <<"e","n","g","l","i","s","h">>)
                 \cup Lit(s, Spaces(s, Lit(s, gen, <<"i","n","f","o","r","m","a","t","i","o","n">>)),
                          <<"t","e","c","h","n","o","l","o","g","y">>)
    IN  AtEnd(s, kw \cup qual) \/ AtEnd(s, exact)

\* /^(Sinhala|Tamil|English)\s*Medium$/i
MediumPattern(s) ==
    LET lang == Lit(s, {1}, <<"s","i","n","h","a","l","a">>)
                \cup Lit(s, {1}, <<"t","a","m","i","l">>)
                \cup Lit(s, {1}, <<"e","n","g","l","i","s","h">>)
    IN  AtEnd(s, Lit(s, Spaces(s, lang), <<"m","e","d","i","u","m">>))

\* /^(Past\s*Pap.*|Marking?\s*Sch.*|Notes?|Short\s*Notes?|Teac?h.*Gui.*|Syllabus|Model\s*Pap.*)$/i
ResourceTypePattern(s) ==
    LET past  == Star(s, Lit(s, Spaces(s, Lit(s, {1}, <<"p","a","s","t">>)), <<"p","a","p">>), AnyChar)
        markin == Lit(s, {1}, <<"m","a","r","k","i","n">>)
        mark  == Star(s, Lit(s, Spaces(s, markin \cup Lit(s, markin, <<"g">>)), <<"s","c","h">>), AnyChar)
        note  == Lit(s, {1}, <<"n","o","t","e">>)
        notes == note \cup Lit(s, note, <<"s">>)
        snote == Lit(s, Spaces(s, Lit(s, {1}, <<"s","h","o","r","t">>)), <<"n","o","t","e">>)
        short == snote \cup Lit(s, snote, <<"s">>)
        tea   == Lit(s, {1}, <<"t","e","a">>)
        teach == Lit(s, tea \cup Lit(s, tea, <<"c">>), <<"h">>)
        guide == Star(s, Lit(s, Star(s, teach, AnyChar), <<"g","u","i">>), AnyChar)
        syll  == Lit(s, {1}, <<"s","y","l","l","a","b","u","s">>)
        model == Star(s, Lit(s, Spaces(s, Lit(s, {1}, <<"m","o","d","e","l">>)), <<"p","a","p">>), AnyChar)
    IN  AtEnd(s, past \cup mark \cup notes \cup short \cup guide \cup syll \cup model)

\* /^(1st|2nd|3rd|First|Second|Third)?\s*Term(\s*Test)?$|^(Final|Mid)(\s*Term|s*Exam)?$/i
IsLetterS(c) == ToLower(c) = "s"

ExamPattern(s) ==
    LET ord  == Lit(s, {1}, <<"1","s","t">>) \cup Lit(s, {1}, <<"2","n","d">>)
                \cup Lit(s, {1}, <<"3","r","d">>) \cup Lit(s, {1}, <<"f","i","r","s","t">>)
                \cup Lit(s, {1}, <<"s","e","c","o","n","d">>) \cup Lit(s, {1}, <<"t","h","i","r","d">>)
        term == Lit(s, Spaces(s, {1} \cup ord), <<"t","e","r","m">>)
        test == Lit(s, Spaces(s, term), <<"t","e","s","t">>)
        fm   == Lit(s, {1}, <<"f","i","n","a","l">>) \cup Lit(s, {1}, <<"m","i","d">>)
        tail == Lit(s, Spaces(s, fm), <<"t","e","r","m">>)
                \cup Lit(s, Star(s, fm, IsLetterS), <<"e","x","a","m">>)
    IN  AtEnd(s, term \cup test) \/ AtEnd(s, fm \cup tail)

\* /^(20\d{2})$/
YearPattern(s) == AtEnd(s, One(s, One(s, Lit(s, {1}, <<"2","0">>), IsDigit), IsDigit))

\* /Subjects$/i
EndsWithSubjects(s) ==
    \E p \in 1..(Len(s) + 1) : AtEnd(s, Lit(s, {p}, <<"s","u","b","j","e","c","t","s">>))

\* /^(O\/L|A\/L)/i
StartsWithOLAL(s) == Lit(s, {1}, <<"o","/","l">>) \cup Lit(s, {1}, <<"a","/","l">>) # {}

HierarchyGroups == {"LEVEL", "GRADE", "STREAM", "SUBJECT", "LESSON"}
AttributeGroups == {"MEDIUM", "RESOURCE_TYPE", "EXAM", "YEAR"}

TagPatterns ==
    << [group |-> "LEVEL",         isHierarchy |-> TRUE],
       [group |-> "LEVEL",         isHierarchy |-> TRUE],
       [group |-> "GRADE",         isHierarchy |-> TRUE],
       [group |-> "STREAM",        isHierarchy |-> TRUE],
       [group |-> "MEDIUM",        isHierarchy |-> FALSE],
       [group |-> "RESOURCE_TYPE", isHierarchy |-> FALSE],
       [group |-> "EXAM",          isHierarchy |-> FALSE],
       [group |-> "YEAR",          isHierarchy |-> FALSE] >>

PatternTest(i, s) ==
    CASE i = 1 -> LevelSubjectsPattern(s)
      [] i = 2 -> LevelBarePattern(s)
      [] i = 3 -> GradePattern(s)
      [] i = 4 -> StreamPattern(s)
      [] i = 5 -> MediumPattern(s)
      [] i = 6 -> ResourceTypePattern(s)
      [] i = 7 -> ExamPattern(s)
      [] i = 8 -> YearPattern(s)

NoMatch == [group |-> "null", isHierarchy |-> FALSE]

\* a classifier that consults the table alone
categorizeFolderTableOnly(name) ==
    LET clean == Trim(name)
        hits  == {i \in 1..Len(TagPatterns) : PatternTest(i, clean)}
    IN  IF hits = {} THEN NoMatch
        ELSE TagPatterns[CHOOSE i \in hits : \A j \in hits : i <= j]

categorizeFolderOf(name) ==
    LET clean == Trim(name)
        hits  == {i \in 1..Len(TagPatterns) : PatternTest(i, clean)}
    IN  IF EndsWithSubjects(clean) /\ ~StartsWithOLAL(clean)
        THEN [group |-> "LEVEL", isHierarchy |-> TRUE]
        ELSE IF hits = {} THEN NoMatch
        ELSE TagPatterns[CHOOSE i \in hits : \A j \in hits : i <= j]


(***************************************************************************)
(* Bounds of the model, the remote tree and the names that occur in it     *)
(***************************************************************************)
MaxRuns == 2
MaxEdits == 1
MaxUserTags == 1
\* the depth at which the model stops following a DriveSync walk that has no guard of its own
MaxDepth == 14
\* failures injected into one behaviour
MaxFaults == 1

\* a parentId of null, and an argument that was not passed (undefined)
NULL == 0
UNDEF == 0 - 1
NoSlug == <<>>
NoName == <<>>

ROOT_FOLDER_ID == "ROOT"
Folders == {"F1", "F2", "F3"}
Files == {"X1"}
\* the order in which files.list returns the entries of one folder
ListingOrder == <<"F1", "X1", "F2", "F3", "F4", "F5", "F6">>
\* pageSize of the list requests; the remote store may return shorter pages
PageSize == 100
\* the ids drive.files.copy hands out, in order
CopyIds == <<"K1", "K2">>

NameAL == <<"A","/","L">>
NameOL == <<"O","/","L">>
NamePrimary == <<"P","r","i","m","a","r","y">>
NameSecondary == <<"S","e","c","o","n","d","a","r","y">>
NameScholarship == <<"S","c","h","o","l","a","r","s","h","i","p">>
NameIELTS == <<"I","E","L","T","S">>
NameGrade1 == <<"G","r","a","d","e"," ","1">>
NameGrade12 == <<"G","r","a","d","e"," ","1","2">>
NameYear == <<"2","0","2","4">>
NameNotes == <<"N","o","t","e","s">>
NameN1 == <<"n","1">>
NameN2 == <<"n","2">>
UserTagName == <<"H","a","r","d">>
NameALSubjects == <<"A","/","L"," ","S","u","b","j","e","c","t","s">>
NameScienceStream == <<"S","c","i","e","n","c","e"," ","S","t","r","e","a","m">>
NameBiology == <<"B","i","o","l","o","g","y">>
NameEnglishMedium == <<"E","n","g","l","i","s","h"," ","M","e","d","i","u","m">>
NameUnit1 == <<"U","n","i","t"," ","1"," ","-"," ","C","e","l","l","s">>
NameNotesPdf == <<"n","o","t","e","s",".","p","d","f">>

\* folder names under DriveSync: a name no pattern matches (and a seeded level), two
\* grades of which one slug is a prefix of the other, and an attribute
FolderNames == {NameAL, NameGrade1, NameGrade12, NameYear}
FileNames == {NameN1, NameN2}
\* folder and file names under the migrator: a school level, a flexible root, a grade
\* and an attribute; a file name no pattern matches and one that is a resource type
MigrationFolderNames == {NameAL, NameIELTS, NameGrade12, NameYear}
MigrationFileNames == {NameN1, NameNotes}
\* the path of the worked example, from the root folder down to the file
ScenarioPath == <<NameALSubjects, NameGrade12, NameScienceStream, NameBiology,
                  NameEnglishMedium, NameUnit1>>
ScenarioNames == {ScenarioPath[i] : i \in DOMAIN ScenarioPath} \cup {NameNotesPdf}
KnownNames == FolderNames \cup FileNames \cup MigrationFolderNames \cup MigrationFileNames
                  \cup ScenarioNames \cup {NameNotes}

VARIABLES
    tags,          \* Tag table: row i is the tag with id i
    resources,     \* Resource table: row i is the resource with id i
    users,         \* ids of the User rows
    folderParent,  \* remote tree: parent folder of every folder
    folderName,    \* remote tree: name of every folder
    fileParent,    \* remote tree: parent folder of every file
    fileName,      \* remote tree: name of every file
    copies,        \* the archive folder: the copies drive.files.copy has made
    phase,         \* "idle", "sync" (DriveSync.sync) or "migrate" (DriveMigrator.run)
    stack,         \* the processFolder activations, innermost last
    stats,         \* the statistics of the running DriveSync or DriveMigrator instance
    uniqueFileLog, \* DriveMigrator.uniqueFileLog of the running instance
    runs,          \* runs started so far
    edits,         \* remote-tree edits so far
    userTags,      \* manual tag attachments so far
    seeded,        \* the seed script has run
    clean,         \* nothing but a completed run has touched tree or tables since it ended
    base,          \* the tables as they were when the current run started from a clean state
    ensured,       \* the DriveSync.ensureTag calls of the current run: arguments and result
    lastUpsert,    \* the last upsertFileResource call: arguments and the row as found
    seenAt,        \* the folder each file was in when upsertFileResource last saw it
    links,         \* remote tree: folders listed in a second parent, as pairs <<parent, child>>
    rootConfigured,\* ROOT_FOLDER_ID is set in the environment
    pageSize,      \* entries drive.files.list returns per page
    faults,        \* failures the remote store and the database can still raise
    requested,     \* the list calls of the current run: folder, page, outcome
    processed,     \* the entries the loops of the current run have handled, in order
    outcome,       \* how the last run ended: "none", "summary" or "thrown"
    writers,       \* concurrent callers of ensureTag: arguments, position, result
    probe          \* a name handed to the classifier and what it returned

vars == <<tags, resources, users, folderParent, folderName, fileParent, fileName, copies,
          phase, stack, stats, uniqueFileLog, runs, edits, userTags, seeded, clean, base,
          ensured, lastUpsert, seenAt, links, rootConfigured, pageSize, faults,
          requested, processed, outcome, writers, probe>>

treeVars == <<folderParent, folderName, fileParent, fileName>>
envVars == <<edits, userTags, seeded>>
syncProbes == <<ensured, lastUpsert, seenAt>>
migratorVars == <<copies, uniqueFileLog>>
auxVars == <<links, rootConfigured, pageSize, faults, writers, probe>>
walkLog == <<requested, processed, outcome>>

\* categorizeFolder, evaluated once for every name of the model
CategoryOfName == [n \in KnownNames |-> categorizeFolderOf(n)]

categorizeFolder(name) ==
    IF name \in KnownNames THEN CategoryOfName[name] ELSE categorizeFolderOf(name)

(***************************************************************************)
(* Tag repository of DriveSync                                             *)
(***************************************************************************)
Truthy(str) == str # NoSlug

\* parentId || null
OrNull(id) == IF id = UNDEF THEN NULL ELSE id

BaseSlugOf(cleanName) == StripNonWord(ReplaceSpaceRuns(Trim(ToLowerCase(cleanName))))

\* baseSlug, evaluated once for every name of the model
BaseSlugOfName == [n \in KnownNames |-> BaseSlugOf(n)]

BaseSlug(cleanName) ==
    IF cleanName \in KnownNames THEN BaseSlugOfName[cleanName] ELSE BaseSlugOf(cleanName)

FinalSlug(baseSlug, parentSlug) ==
    IF Truthy(parentSlug) /\ ~StartsWith(baseSlug, parentSlug)
    THEN parentSlug \o <<"-">> \o baseSlug
    ELSE baseSlug

TagsBySlug(tgs, slug) == {i \in DOMAIN tgs : tgs[i].slug = slug}

TagsByNameParent(tgs, name, parentId) ==
    {i \in DOMAIN tgs : tgs[i].name = name /\ tgs[i].parentId = parentId}

\* the rows the two lookups of ensureTag can return (findFirst: any matching row)
FoundTags(tgs, cleanName, finalSlug, parentId) ==
    IF TagsBySlug(tgs, finalSlug) # {}
    THEN TagsBySlug(tgs, finalSlug)
    ELSE TagsByNameParent(tgs, cleanName, OrNull(parentId))

NewSystemTag(cleanName, finalSlug, group, parentId) ==
    [name |-> cleanName, slug |-> finalSlug, group |-> group,
     source |-> "SYSTEM", parentId |-> OrNull(parentId)]

NeedsUpdate(tag, group, parentId, finalSlug) ==
    tag.group # group \/ tag.parentId # parentId \/ tag.slug # finalSlug

\* prisma.tag.update: a field given as undefined is left as it is
UpdatedTag(tag, group, parentId, finalSlug) ==
    [tag EXCEPT !.group = IF group # "null" THEN group ELSE tag.group,
                !.parentId = IF parentId = UNDEF THEN tag.parentId ELSE parentId,
                !.slug = finalSlug]

\* every outcome of ensureTag(name, group, parentId, parentSlug) on table tgs
ensureTag(tgs, name, group, parentId, parentSlug) ==
    LET cleanName == Trim(name)
        finalSlug == FinalSlug(BaseSlug(cleanName), parentSlug)
        found     == FoundTags(tgs, cleanName, finalSlug, parentId)
    IN  IF found = {}
        THEN {[tags |-> Append(tgs, NewSystemTag(cleanName, finalSlug, group, parentId)),
               id |-> Len(tgs) + 1, created |-> TRUE, slug |-> finalSlug]}
        ELSE {[tags |-> IF NeedsUpdate(tgs[i], group, parentId, finalSlug)
                        THEN [tgs EXCEPT ![i] = UpdatedTag(tgs[i], group, parentId, finalSlug)]
                        ELSE tgs,
               id |-> i, created |-> FALSE, slug |-> finalSlug] : i \in found}

\* getTagSlug: tag?.slug || null
getTagSlug(tgs, tagId) == IF tagId \in DOMAIN tgs THEN tgs[tagId].slug ELSE NoSlug

(***************************************************************************)
(* Catalog repository of DriveSync: upsertFileResource (safe merge)        *)
(***************************************************************************)
SeqToSet(q) == {q[i] : i \in DOMAIN q}

ResourcesByDriveFileId(res, fileId) == {i \in DOMAIN res : res[i].driveFileId = fileId}

\* existing.tags.filter(t => t.parentId === null).map(t => t.id)
ExistingAttributeTagIds(tgs, existing) == {t \in existing.tags : tgs[t].parentId = NULL}

\* a merge that keeps nothing of what was attached before
FinalTagIdsOverwritten(tgs, existing, hierarchyTagIds) == SeqToSet(hierarchyTagIds)

\* Array.from(new Set([...hierarchyTagIds, ...attributeTagIds]))
FinalTagIds(tgs, existing, hierarchyTagIds) ==
    SeqToSet(hierarchyTagIds) \cup ExistingAttributeTagIds(tgs, existing)

NewSyncResource(file, hierarchyTagIds) ==
    [title |-> file.name, driveFileId |-> file.id, originalDriveId |-> "null",
     source |-> "SYSTEM", status |-> "APPROVED", uploaderId |-> "system-sync",
     tags |-> SeqToSet(hierarchyTagIds)]

UpdatedResource(tgs, existing, file, hierarchyTagIds) ==
    [existing EXCEPT !.title = file.name,
                     !.tags = FinalTagIds(tgs, existing, hierarchyTagIds)]

\* an upsert that deletes the row it finds instead of updating it
upsertFileResourceDeleting(res, tgs, file, hierarchyTagIds) ==
    LET found == ResourcesByDriveFileId(res, file.id)
    IN  IF found = {}
        THEN {[resources |-> Append(res, NewSyncResource(file, hierarchyTagIds)),
               id |-> Len(res) + 1, existed |-> FALSE]}
        ELSE {[resources |-> SelectSeq(res, LAMBDA r : r.driveFileId # file.id),
               id |-> i, existed |-> TRUE] : i \in found}

\* every outcome of upsertFileResource(file, hierarchyTagIds) on tables res, tgs
upsertFileResource(res, tgs, file, hierarchyTagIds) ==
    LET found == ResourcesByDriveFileId(res, file.id)
    IN  IF found = {}
        THEN {[resources |-> Append(res, NewSyncResource(file, hierarchyTagIds)),
               id |-> Len(res) + 1, existed |-> FALSE]}
        ELSE {[resources |-> [res EXCEPT ![i] = UpdatedResource(tgs, res[i], file, hierarchyTagIds)],
               id |-> i, existed |-> TRUE] : i \in found}

(***************************************************************************)
(* The remote tree                                                         *)
(***************************************************************************)
IsFolder(n) == n \in DOMAIN folderParent
ParentOf(n) ==
    IF IsFolder(n) THEN folderParent[n]
    ELSE IF n \in DOMAIN fileParent THEN fileParent[n] ELSE "none"
NodeName(n) == IF IsFolder(n) THEN folderName[n] ELSE fileName[n]

RECURSIVE UnderRoot(_, _, _)
UnderRoot(fp, f, fuel) ==
    IF fp[f] = ROOT_FOLDER_ID THEN TRUE
    ELSE IF fuel = 0 THEN FALSE
    ELSE UnderRoot(fp, fp[f], fuel - 1)

\* a parent function that is a forest hanging from the root folder
IsTree(fp) == \A f \in Folders : fp[f] # f /\ UnderRoot(fp, f, Cardinality(Folders))

\* drive.files.list of one folder: its entries, in listing order
Listing(folderId) ==
    LET ids == SelectSeq(ListingOrder,
                         LAMBDA n : ParentOf(n) = folderId \/ <<folderId, n>> \in links)
    IN  [i \in 1..Len(ids) |->
            [id |-> ids[i], name |-> NodeName(ids[i]), isFolder |-> IsFolder(ids[i])]]

\* the pages the remote store cuts a listing into, and whether page k has a nextPageToken
PageCount(folderId) ==
    IF Listing(folderId) = <<>> THEN 1
    ELSE (Len(Listing(folderId)) + pageSize - 1) \div pageSize
PageOf(folderId, k) ==
    LET all == Listing(folderId)
        last == IF k * pageSize < Len(all) THEN k * pageSize ELSE Len(all)
    IN  SubSeq(all, (k - 1) * pageSize + 1, last)
\* a response that never carries a nextPageToken
NoNextPage(folderId, k) == FALSE
HasNextPage(folderId, k) == k * pageSize < Len(Listing(folderId))

\* the folders on the way from the root folder down to folder f, f included
RECURSIVE PathTo(_, _)
PathTo(f, fuel) ==
    IF f = ROOT_FOLDER_ID \/ fuel = 0 THEN <<>>
    ELSE Append(PathTo(folderParent[f], fuel - 1), f)

FoldersAbove(x) == SeqToSet(PathTo(fileParent[x], Cardinality(Folders)))

(***************************************************************************)
(* DriveSync: sync() and processFolder(), one step per awaited call        *)
(***************************************************************************)
EmptyContext == [tagIds |-> <<>>, currentParentTagId |-> UNDEF, currentParentSlug |-> NoSlug]

ZeroStats == [foldersScanned |-> 0, filesProcessed |-> 0, filesUpserted |-> 0,
              tagsCreated |-> 0, errorsEncountered |-> 0]

NoUpsert == [called |-> FALSE]
NoBase == [valid |-> FALSE, tags |-> <<>>, resources |-> <<>>]
BaseOfRun == IF clean THEN [valid |-> TRUE, tags |-> tags, resources |-> resources] ELSE NoBase

Frame(folderId, ctx, depth) ==
    [folderId |-> folderId, ctx |-> ctx, depth |-> depth,
     listed |-> FALSE, files |-> <<>>, idx |-> 1, page |-> 0, hasMore |-> TRUE]

Top == stack[Len(stack)]
Entry == Top.files[Top.idx]
InLoop == stack # <<>> /\ Top.listed /\ Top.idx <= Len(Top.files)
AtEntry == phase = "sync" /\ InLoop
\* the activation on top is about to call drive.files.list: for its first page or its next one
AtList == stack # <<>> /\ (~Top.listed \/ (Top.idx > Len(Top.files) /\ Top.hasMore))
\* the response of the next list call of the activation on top
Respond(stk) ==
    LET fr == stk[Len(stk)]
    IN  [stk EXCEPT ![Len(stk)] = [fr EXCEPT !.listed = TRUE,
                                             !.files = PageOf(fr.folderId, fr.page + 1),
                                             !.idx = 1,
                                             !.page = fr.page + 1,
                                             !.hasMore = HasNextPage(fr.folderId, fr.page + 1)]]
Pop(stk) == SubSeq(stk, 1, Len(stk) - 1)
Requested(code) ==
    Append(requested, [folder |-> Top.folderId, page |-> Top.page + 1, depth |-> Top.depth,
                       code |-> code])
Handled(ok) == Append(processed, [folder |-> Top.folderId, id |-> Entry.id, ok |-> ok])

\* the caller's loop moves on to the next entry once the awaited call returns
Advance(stk) == [stk EXCEPT ![Len(stk)].idx = @ + 1]

\* an activation whose loop has run out of entries returns to its caller
RECURSIVE Unwind(_)
Unwind(stk) ==
    IF stk # <<>> /\ stk[Len(stk)].listed /\ stk[Len(stk)].idx > Len(stk[Len(stk)].files)
                   /\ ~stk[Len(stk)].hasMore
    THEN Unwind(SubSeq(stk, 1, Len(stk) - 1))
    ELSE stk

\* nextContext after a hierarchy tag was ensured
\* a child context that appends the tag but keeps the parent pointer of the caller
NextContextKeepingParent(ctx, tagId, tagSlug) ==
    [tagIds |-> Append(ctx.tagIds, tagId),
     currentParentTagId |-> ctx.currentParentTagId,
     currentParentSlug |-> ctx.currentParentSlug]

NextContext(ctx, tagId, tagSlug) ==
    [tagIds |-> Append(ctx.tagIds, tagId),
     currentParentTagId |-> tagId,
     currentParentSlug |-> tagSlug]

\* an attribute folder that starts its children from the empty context
ResetContext(ctx) == EmptyContext

\* the context an attribute folder hands to processFolder for its children
FlattenContext(ctx) == ctx

StartSync ==
    /\ phase = "idle"
    /\ runs < MaxRuns
    /\ rootConfigured
    /\ phase' = "sync"
    /\ runs' = runs + 1
    /\ users' = users \cup {"system-sync"}
    /\ stack' = <<Frame(ROOT_FOLDER_ID, EmptyContext, 0)>>
    /\ stats' = ZeroStats
    /\ base' = BaseOfRun
    /\ clean' = FALSE
    /\ ensured' = <<>>
    /\ lastUpsert' = NoUpsert
    /\ requested' = <<>>
    /\ processed' = <<>>
    /\ outcome' = "none"
    /\ UNCHANGED <<auxVars, tags, resources, treeVars, envVars, migratorVars, seenAt>>

ListFolder ==
    /\ phase = "sync" /\ AtList
    /\ LET files == PageOf(Top.folderId, Top.page + 1)
       IN  /\ stack' = Unwind(Respond(stack))
           /\ stats' = [stats EXCEPT !.filesProcessed = @ + Len(files)]
    /\ requested' = Requested(200)
    /\ UNCHANGED <<auxVars, tags, resources, users, treeVars, envVars, migratorVars, syncProbes,
                   phase, runs, clean, base, processed, outcome>>

\* a descent that pushes the tag onto the context object of the caller's loop
EnsureAndDescendShared(name, group) ==
    LET ctx == Top.ctx
    IN  \E r \in ensureTag(tags, name, group, ctx.currentParentTagId, ctx.currentParentSlug) :
            /\ Top.depth < MaxDepth
            /\ processed' = Handled(TRUE)
            /\ tags' = r.tags
            /\ stack' = Append([Advance(stack) EXCEPT ![Len(stack)].ctx =
                                    NextContext(ctx, r.id, getTagSlug(r.tags, r.id))],
                               Frame(Entry.id,
                                     NextContext(ctx, r.id, getTagSlug(r.tags, r.id)),
                                     Top.depth + 1))
            /\ stats' = [stats EXCEPT !.foldersScanned = @ + 1,
                                      !.tagsCreated = @ + (IF r.created THEN 1 ELSE 0)]
            /\ ensured' = Append(ensured,
                                 [folder |-> Entry.id, name |-> name, group |-> group,
                                  parentId |-> ctx.currentParentTagId,
                                  parentSlug |-> ctx.currentParentSlug,
                                  slug |-> r.slug, id |-> r.id, created |-> r.created])

\* a descent that does not wait for the tag to be stored
EnsureAndDescendUnawaited(name, group) ==
    LET ctx == Top.ctx
    IN  \E r \in ensureTag(tags, name, group, ctx.currentParentTagId, ctx.currentParentSlug) :
            /\ Top.depth < MaxDepth
            /\ processed' = Handled(TRUE)
            /\ tags' = tags
            /\ stack' = Append(Advance(stack),
                               Frame(Entry.id, NextContext(ctx, r.id, r.slug), Top.depth + 1))
            /\ stats' = [stats EXCEPT !.foldersScanned = @ + 1]
            /\ ensured' = Append(ensured,
                                 [folder |-> Entry.id, name |-> name, group |-> group,
                                  parentId |-> ctx.currentParentTagId,
                                  parentSlug |-> ctx.currentParentSlug,
                                  slug |-> r.slug, id |-> r.id, created |-> r.created])

\* the two branches that materialise a tag and descend with nextContext
EnsureAndDescend(name, group) ==
    LET ctx == Top.ctx
    IN  \E r \in ensureTag(tags, name, group, ctx.currentParentTagId, ctx.currentParentSlug) :
            /\ Top.depth < MaxDepth
            /\ processed' = Handled(TRUE)
            /\ tags' = r.tags
            /\ stack' = Append(Advance(stack),
                               Frame(Entry.id,
                                     NextContext(ctx, r.id, getTagSlug(r.tags, r.id)),
                                     Top.depth + 1))
            /\ stats' = [stats EXCEPT !.foldersScanned = @ + 1,
                                      !.tagsCreated = @ + (IF r.created THEN 1 ELSE 0)]
            /\ ensured' = Append(ensured,
                                 [folder |-> Entry.id, name |-> name, group |-> group,
                                  parentId |-> ctx.currentParentTagId,
                                  parentSlug |-> ctx.currentParentSlug,
                                  slug |-> r.slug, id |-> r.id, created |-> r.created])

VisitHierarchyFolder ==
    /\ AtEntry /\ Entry.isFolder
    /\ LET name == Trim(Entry.name)
           patternMatch == categorizeFolder(name)
       IN  /\ patternMatch # NoMatch /\ patternMatch.isHierarchy
           /\ EnsureAndDescend(name, patternMatch.group)
    /\ UNCHANGED <<auxVars, resources, users, treeVars, envVars, migratorVars, lastUpsert, seenAt,
                   phase, runs, clean, base, requested, outcome>>

\* an attribute folder that is given a tag below the current parent, like a hierarchy folder
VisitAttributeFolderTagged ==
    /\ AtEntry /\ Entry.isFolder
    /\ LET name == Trim(Entry.name)
           patternMatch == categorizeFolder(name)
       IN  /\ patternMatch # NoMatch /\ ~patternMatch.isHierarchy
           /\ \E r \in ensureTag(tags, name, patternMatch.group,
                                 Top.ctx.currentParentTagId, Top.ctx.currentParentSlug) :
                  tags' = r.tags
           /\ stack' = Append(Advance(stack),
                              Frame(Entry.id, FlattenContext(Top.ctx), Top.depth + 1))
           /\ stats' = [stats EXCEPT !.foldersScanned = @ + 1]
    /\ Top.depth < MaxDepth
    /\ processed' = Handled(TRUE)
    /\ UNCHANGED <<auxVars, resources, users, treeVars, envVars, migratorVars, syncProbes,
                   phase, runs, clean, base, requested, outcome>>

VisitAttributeFolder ==
    /\ AtEntry /\ Entry.isFolder
    /\ LET name == Trim(Entry.name)
           patternMatch == categorizeFolder(name)
       IN  /\ patternMatch # NoMatch /\ ~patternMatch.isHierarchy
           /\ stack' = Append(Advance(stack),
                              Frame(Entry.id, FlattenContext(Top.ctx), Top.depth + 1))
           /\ stats' = [stats EXCEPT !.foldersScanned = @ + 1]
    /\ Top.depth < MaxDepth
    /\ processed' = Handled(TRUE)
    /\ UNCHANGED <<auxVars, tags, resources, users, treeVars, envVars, migratorVars, syncProbes,
                   phase, runs, clean, base, requested, outcome>>

VisitUnmatchedFolder ==
    /\ AtEntry /\ Entry.isFolder
    /\ LET name == Trim(Entry.name)
       IN  /\ categorizeFolder(name) = NoMatch
           /\ EnsureAndDescend(name, "LESSON")
    /\ UNCHANGED <<auxVars, resources, users, treeVars, envVars, migratorVars, lastUpsert, seenAt,
                   phase, runs, clean, base, requested, outcome>>

VisitFile ==
    /\ AtEntry /\ ~Entry.isFolder
    /\ \E r \in upsertFileResource(resources, tags, Entry, Top.ctx.tagIds) :
           /\ resources' = r.resources
           /\ lastUpsert' = [called |-> TRUE, fileId |-> Entry.id, name |-> Entry.name,
                             hierarchyTagIds |-> Top.ctx.tagIds, id |-> r.id,
                             existed |-> r.existed,
                             before |-> IF r.existed THEN resources[r.id].tags ELSE {}]
    /\ seenAt' = [seenAt EXCEPT ![Entry.id] = Top.folderId]
    /\ stack' = Unwind(Advance(stack))
    /\ stats' = [stats EXCEPT !.filesUpserted = @ + 1]
    /\ processed' = Handled(TRUE)
    /\ UNCHANGED <<auxVars, tags, users, treeVars, envVars, migratorVars, ensured,
                   phase, runs, clean, base, requested, outcome>>

FinishSync ==
    /\ phase = "sync" /\ stack = <<>>
    /\ phase' = "idle"
    /\ clean' = TRUE
    /\ outcome' = "summary"
    /\ UNCHANGED <<auxVars, tags, resources, users, treeVars, envVars, migratorVars, syncProbes,
                   stack, stats, runs, base, requested, processed>>

(***************************************************************************)
(* The seed script: ensureTag, seedHierarchy and main                      *)
(***************************************************************************)
\* the rows of ATTRIBUTES and HIERARCHY_SKELETON that carry names of the model
SeedAttributes == <<[group |-> "YEAR", name |-> NameYear]>>
SeedSkeleton == <<[name |-> NameAL, children |-> <<NameGrade12>>],
                  [name |-> NamePrimary, children |-> <<NameGrade1>>],
                  [name |-> NameIELTS, children |-> <<>>]>>

EqualsInsensitive(a, b) == ToLowerCase(a) = ToLowerCase(b)

SeedSlug(name) == StripEdgeHyphens(ReplaceNonAlnumRuns(ToLowerCase(name)))

\* /^Grade \d+/
SeedGradePattern(s) ==
    /\ Len(s) >= 7
    /\ SubSeq(s, 1, 6) = <<"G","r","a","d","e"," ">>
    /\ IsDigit(s[7])

\* /Stream$/i
SeedStreamPattern(s) ==
    \E p \in 1..(Len(s) + 1) : AtEnd(s, Lit(s, {p}, <<"s","t","r","e","a","m">>))

SeedGroup(name, parentId, group) ==
    IF parentId = NULL THEN "LEVEL"
    ELSE IF SeedGradePattern(name) THEN "GRADE"
    ELSE IF SeedStreamPattern(name) THEN "STREAM"
    ELSE group

\* ensureTag of the seed script: the table afterwards and the id of the tag
SeedEnsureTag(tgs, name, group, parentId) ==
    LET found == {i \in DOMAIN tgs : /\ EqualsInsensitive(tgs[i].name, name)
                                     /\ tgs[i].parentId = parentId}
    IN  IF found = {}
        THEN [tags |-> Append(tgs, [name |-> name, slug |-> SeedSlug(name), group |-> group,
                                    source |-> "SYSTEM", parentId |-> parentId]),
              id |-> Len(tgs) + 1]
        ELSE [tags |-> tgs, id |-> CHOOSE i \in found : TRUE]

RECURSIVE SeedAttributeLoop(_, _)
SeedAttributeLoop(tgs, rows) ==
    IF rows = <<>> THEN tgs
    ELSE SeedAttributeLoop(SeedEnsureTag(tgs, Head(rows).name, Head(rows).group, NULL).tags,
                           Tail(rows))

RECURSIVE SeedChildren(_, _, _)
SeedChildren(tgs, names, parentId) ==
    IF names = <<>> THEN tgs
    ELSE SeedChildren(SeedEnsureTag(tgs, Head(names),
                                    SeedGroup(Head(names), parentId, "UNKNOWN"), parentId).tags,
                      Tail(names), parentId)

RECURSIVE seedHierarchy(_, _)
seedHierarchy(tgs, roots) ==
    IF roots = <<>> THEN tgs
    ELSE LET r == SeedEnsureTag(tgs, Head(roots).name,
                                SeedGroup(Head(roots).name, NULL, "LEVEL"), NULL)
         IN  seedHierarchy(SeedChildren(r.tags, Head(roots).children, r.id), Tail(roots))

Seed ==
    /\ phase = "idle" /\ ~seeded /\ tags = <<>>
    /\ tags' = seedHierarchy(SeedAttributeLoop(tags, SeedAttributes), SeedSkeleton)
    /\ seeded' = TRUE
    /\ clean' = FALSE
    /\ UNCHANGED <<auxVars, walkLog, resources, users, treeVars, migratorVars, syncProbes, phase, stack, stats,
                   runs, edits, userTags, base>>

(***************************************************************************)
(* The product surface and the owners of the remote tree                   *)
(***************************************************************************)
\* TagService.getOrCreateTag(name) with neither group nor parent
getOrCreateTag(tgs, name) ==
    LET cleanName == Trim(name)
        found == {i \in DOMAIN tgs : tgs[i].name = cleanName}
    IN  IF found = {}
        THEN {[tags |-> Append(tgs, [name |-> cleanName, slug |-> BaseSlug(cleanName),
                                     group |-> "null", source |-> "USER", parentId |-> NULL]),
               id |-> Len(tgs) + 1]}
        ELSE {[tags |-> tgs, id |-> i] : i \in found}

\* an administrator labels a catalogued resource with a tag of their own
AdminTagResource ==
    /\ phase = "idle" /\ userTags < MaxUserTags /\ runs < MaxRuns
    /\ \E i \in DOMAIN resources :
       \E r \in getOrCreateTag(tags, UserTagName) :
           /\ r.id \notin resources[i].tags
           /\ tags' = r.tags
           /\ resources' = [resources EXCEPT ![i].tags = @ \cup {r.id}]
    /\ userTags' = userTags + 1
    /\ clean' = FALSE
    /\ UNCHANGED <<auxVars, walkLog, users, treeVars, migratorVars, syncProbes, phase, stack, stats, runs,
                   edits, seeded, base>>

\* the owner of the remote tree moves a file to another folder
MoveFile ==
    /\ phase = "idle" /\ edits < MaxEdits /\ 0 < runs /\ runs < MaxRuns
    /\ \E x \in Files : \E f \in Folders \cup {ROOT_FOLDER_ID} :
           /\ f # fileParent[x]
           /\ fileParent' = [fileParent EXCEPT ![x] = f]
    /\ edits' = edits + 1
    /\ clean' = FALSE
    /\ UNCHANGED <<auxVars, walkLog, tags, resources, users, folderParent, folderName, fileName, migratorVars,
                   syncProbes, phase, stack, stats, runs, userTags, seeded, base>>

\* the owner of the remote tree renames a file
RenameFile ==
    /\ phase = "idle" /\ edits < MaxEdits /\ 0 < runs /\ runs < MaxRuns
    /\ \E x \in Files : \E n \in FileNames :
           /\ n # fileName[x]
           /\ fileName' = [fileName EXCEPT ![x] = n]
    /\ edits' = edits + 1
    /\ clean' = FALSE
    /\ UNCHANGED <<auxVars, walkLog, tags, resources, users, folderParent, folderName, fileParent, migratorVars,
                   syncProbes, phase, stack, stats, runs, userTags, seeded, base>>

(***************************************************************************)
(* DriveMigrator: the copy-based migrator                                  *)
(***************************************************************************)
MigratorMaxDepth == 12

\* s.includes(w)
Includes(s, w) == \E p \in 1..(Len(s) - Len(w) + 1) : SubSeq(s, p, p + Len(w) - 1) = w

\* name: { contains: w, mode: 'insensitive' }
ContainsInsensitive(s, w) == Includes(ToLowerCase(s), ToLowerCase(w))

\* /^6\s*-\s*9\s*Class\s*Subjects/i
SecondaryLegacyPattern(s) ==
    LET six   == Spaces(s, Lit(s, {1}, <<"6">>))
        dash  == Spaces(s, Lit(s, six, <<"-">>))
        nine  == Spaces(s, Lit(s, dash, <<"9">>))
        class == Spaces(s, Lit(s, nine, <<"c","l","a","s","s">>))
    IN  Lit(s, class, <<"s","u","b","j","e","c","t","s">>) # {}

\* /^Primary\s*Class\s*Subjects/i
PrimaryLegacyPattern(s) ==
    LET prim  == Spaces(s, Lit(s, {1}, <<"p","r","i","m","a","r","y">>))
        class == Spaces(s, Lit(s, prim, <<"c","l","a","s","s">>))
    IN  Lit(s, class, <<"s","u","b","j","e","c","t","s">>) # {}

\* /^A\/L\s*Subjects/i
ALLegacyPattern(s) ==
    Lit(s, Spaces(s, Lit(s, {1}, <<"a","/","l">>)), <<"s","u","b","j","e","c","t","s">>) # {}

\* /^O\/L\s*Subjects/i
OLLegacyPattern(s) ==
    Lit(s, Spaces(s, Lit(s, {1}, <<"o","/","l">>)), <<"s","u","b","j","e","c","t","s">>) # {}

\* /attribute/i
AttributeWord(s) == ContainsInsensitive(s, <<"a","t","t","r","i","b","u","t","e">>)

\* /Grade \d+/i
MigratorGradePattern(s) ==
    \E p \in 1..Len(s) : One(s, Lit(s, {p}, <<"g","r","a","d","e"," ">>), IsDigit) # {}

StreamKeywords == << <<"S","c","i","e","n","c","e">>, <<"M","a","t","h","s">>,
                     <<"A","r","t","s">>, <<"C","o","m","m","e","r","c","e">>,
                     <<"B","i","o">>,
                     <<"C","o","m","b","i","n","e","d"," ","M","a","t","h","s">>,
                     <<"T","e","c","h">> >>

\* /Stream/i.test(cleanName) || [...].some(k => cleanName.toLowerCase().includes(k.toLowerCase()))
MigratorStreamPattern(s) ==
    \/ ContainsInsensitive(s, <<"s","t","r","e","a","m">>)
    \/ \E k \in 1..Len(StreamKeywords) : ContainsInsensitive(s, StreamKeywords[k])

SchoolLevels == <<NameAL, NameOL, NamePrimary, NameSecondary, NameScholarship>>

IsSchool(canonicalLevel) ==
    \E k \in 1..Len(SchoolLevels) : Includes(canonicalLevel, SchoolLevels[k])

\* gradeName.match(/\d+/)?.[0]
RECURSIVE TakeDigits(_)
TakeDigits(s) ==
    IF s # <<>> /\ IsDigit(Head(s)) THEN <<Head(s)>> \o TakeDigits(Tail(s)) ELSE <<>>

RECURSIVE GradeNum(_)
GradeNum(s) ==
    IF s = <<>> THEN <<>>
    ELSE IF IsDigit(Head(s)) THEN TakeDigits(s)
    ELSE GradeNum(Tail(s))

\* streamName.replace(/Stream/i, "").trim()
CleanStream(s) ==
    LET w    == <<"s","t","r","e","a","m">>
        hits == {p \in 1..Len(s) : Lit(s, {p}, w) # {}}
    IN  IF hits = {} THEN Trim(s)
        ELSE LET p == CHOOSE q \in hits : \A r \in hits : q <= r
             IN  Trim(SubSeq(s, 1, p - 1) \o SubSeq(s, p + Len(w), Len(s)))

MigratorSlug(name) == StripEdgeHyphens(ReplaceNonAlnumRuns(Trim(ToLowerCase(name))))

\* every outcome of DriveMigrator.ensureTag(name, group, parentId) on table tgs
MigratorEnsureTag(tgs, name, group, parentId) ==
    LET existing == {i \in DOMAIN tgs : /\ EqualsInsensitive(tgs[i].name, name)
                                        /\ tgs[i].parentId = parentId}
    IN  IF existing = {}
        THEN {[tags |-> Append(tgs, [name |-> Trim(name), slug |-> MigratorSlug(name),
                                     group |-> group, source |-> "SYSTEM",
                                     parentId |-> parentId]),
               id |-> Len(tgs) + 1]}
        ELSE {[tags |-> tgs, id |-> i] : i \in existing}

\* the attribute patterns (isHierarchy false) that fileName matches
AttributePatternsOf(text) ==
    {i \in 1..Len(TagPatterns) : ~TagPatterns[i].isHierarchy /\ PatternTest(i, text)}

AttributePatternsOfName == [n \in KnownNames |-> AttributePatternsOf(n)]

AttributePatterns(text) ==
    IF text \in KnownNames THEN AttributePatternsOfName[text]
    ELSE AttributePatternsOf(text)

\* the loop of extractFileAttributes(fileName) from pattern i on: every attribute pattern is
\* anchored at both ends, so the matched text match[0] is the whole of the file name
RECURSIVE ExtractFrom(_, _, _)
ExtractFrom(tgs, text, i) ==
    IF i > Len(TagPatterns) THEN {[tags |-> tgs, ids |-> <<>>]}
    ELSE IF i \in AttributePatterns(text)
    THEN UNION {{[tags |-> rest.tags, ids |-> <<r.id>> \o rest.ids] :
                    rest \in ExtractFrom(r.tags, text, i + 1)} :
                r \in MigratorEnsureTag(tgs, text, TagPatterns[i].group, NULL)}
    ELSE ExtractFrom(tgs, text, i + 1)

\* every outcome of extractFileAttributes(fileName): the table and the tag ids
extractFileAttributes(tgs, text) == ExtractFrom(tgs, text, 1)

InitialContext ==
    [levelName |-> NoName, gradeName |-> NoName, streamName |-> NoName,
     isFlexibleRoot |-> FALSE, flexibleTags |-> <<>>, parentTagId |-> NULL,
     subject |-> NoName, lessonName |-> NoName, inheritedTags |-> <<>>]

\* the names canonicalLevel can take for a folder met before any level ("" for none)
CanonicalLevels(tgs, cleanName) ==
    IF SecondaryLegacyPattern(cleanName) THEN {NameSecondary}
    ELSE IF PrimaryLegacyPattern(cleanName) THEN {NamePrimary}
    ELSE IF ALLegacyPattern(cleanName) THEN {NameAL}
    ELSE IF OLLegacyPattern(cleanName) THEN {NameOL}
    ELSE LET rootTags == {i \in DOMAIN tgs : /\ EqualsInsensitive(tgs[i].name, cleanName)
                                             /\ tgs[i].parentId = NULL
                                             /\ tgs[i].group = "LEVEL"}
         IN  IF rootTags = {} THEN {NoName} ELSE {tgs[i].name : i \in rootTags}

\* 1. root level switch
RootSwitch(tgs, newContext, canonicalLevel) ==
    LET isSchool  == IsSchool(canonicalLevel)
        withLevel == [newContext EXCEPT !.levelName = canonicalLevel,
                                        !.isFlexibleRoot = ~isSchool]
    IN  IF ~isSchool
        THEN {[tags |-> r.tags,
               ctx |-> [withLevel EXCEPT !.flexibleTags = <<r.id>>, !.parentTagId = r.id]] :
                 r \in MigratorEnsureTag(tgs, canonicalLevel, "LEVEL", NULL)}
        ELSE {[tags |-> tgs, ctx |-> withLevel]}

\* newContext.inheritedTags.push(...extraTags): nothing else of the context moves
InheritTags(newContext, extraTags) ==
    [newContext EXCEPT !.inheritedTags = @ \o extraTags]

\* 2. flexible mode
FlexibleContext(tgs, cleanName, newContext) ==
    IF AttributeWord(cleanName) THEN {[tags |-> tgs, ctx |-> newContext]}
    ELSE UNION {IF e.ids # <<>>
                THEN {[tags |-> e.tags, ctx |-> InheritTags(newContext, e.ids)]}
                ELSE {[tags |-> r.tags,
                       ctx |-> [newContext EXCEPT !.flexibleTags = Append(@, r.id),
                                                  !.parentTagId = r.id]] :
                         r \in MigratorEnsureTag(e.tags, cleanName, "SUBJECT",
                                                 newContext.parentTagId)} :
                e \in extractFileAttributes(tgs, cleanName)}

\* 3. strict school mode
StrictContext(tgs, cleanName, parentContext, newContext) ==
    IF MigratorGradePattern(cleanName)
    THEN {[tags |-> tgs, ctx |-> [newContext EXCEPT !.gradeName = cleanName]]}
    ELSE IF MigratorStreamPattern(cleanName)
    THEN {[tags |-> tgs, ctx |-> [newContext EXCEPT !.streamName = cleanName]]}
    ELSE {IF e.ids # <<>>
          THEN [tags |-> e.tags, ctx |-> InheritTags(newContext, e.ids)]
          ELSE LET match == categorizeFolder(cleanName)
               IN  IF match # NoMatch /\ ~match.isHierarchy
                   THEN [tags |-> e.tags, ctx |-> newContext]
                   ELSE IF parentContext.subject # NoName
                   THEN [tags |-> e.tags, ctx |-> [newContext EXCEPT !.lessonName = cleanName]]
                   ELSE [tags |-> e.tags, ctx |-> [newContext EXCEPT !.subject = cleanName]] :
          e \in extractFileAttributes(tgs, cleanName)}

\* every outcome of deriveFolderContext(folderName, parentContext): the table and newContext
deriveFolderContext(tgs, name, parentContext) ==
    LET cleanName  == Trim(name)
        newContext == parentContext
        levels     == IF parentContext.levelName = NoName /\ ~parentContext.isFlexibleRoot
                      THEN CanonicalLevels(tgs, cleanName)
                      ELSE {NoName}
    IN  UNION {IF canonicalLevel # NoName
               THEN RootSwitch(tgs, newContext, canonicalLevel)
               ELSE IF newContext.isFlexibleRoot
               THEN FlexibleContext(tgs, cleanName, newContext)
               ELSE StrictContext(tgs, cleanName, parentContext, newContext) :
               canonicalLevel \in levels}

\* ensureCanonicalFolder: the path of the folder a copy is put in, below the archive folder
CanonicalPath(context) ==
    LET level == IF context.levelName # NoName THEN <<context.levelName>>
                 ELSE IF context.isFlexibleRoot /\ Len(context.flexibleTags) > 0
                         /\ context.subject # NoName
                 THEN <<context.subject>>
                 ELSE <<>>
        grade   == IF context.gradeName # NoName THEN <<context.gradeName>> ELSE <<>>
        stream  == IF context.streamName # NoName THEN <<context.streamName>> ELSE <<>>
        subject == IF context.subject # NoName THEN <<context.subject>> ELSE <<>>
    IN  level \o grade \o stream \o subject

\* findFirst: null, or any of the matching rows
FirstOf(rows) == IF rows = {} THEN {NULL} ELSE rows

LevelTags(tgs, context) ==
    IF context.levelName = NoName THEN {NULL}
    ELSE FirstOf({i \in DOMAIN tgs : /\ ContainsInsensitive(tgs[i].name, context.levelName)
                                     /\ tgs[i].group = "LEVEL"})

GradeTags(tgs, context, levelTag) ==
    IF context.gradeName = NoName \/ levelTag = NULL \/ GradeNum(context.gradeName) = <<>>
    THEN {NULL}
    ELSE FirstOf({i \in DOMAIN tgs :
                     /\ ContainsInsensitive(tgs[i].name,
                                            <<"G","r","a","d","e"," ">> \o GradeNum(context.gradeName))
                     /\ tgs[i].parentId = levelTag})

StreamTags(tgs, context, gradeTag) ==
    IF context.streamName = NoName \/ gradeTag = NULL THEN {NULL}
    ELSE FirstOf({i \in DOMAIN tgs :
                     /\ ContainsInsensitive(tgs[i].name, CleanStream(context.streamName))
                     /\ tgs[i].parentId = gradeTag})

OneId(tagId) == IF tagId = NULL THEN <<>> ELSE <<tagId>>

\* the subject and lesson tags, and the attributes of the file name, below a resolved chain
StrictLeaves(tgs, context, text, parentForSubject) ==
    LET subjects == IF /\ parentForSubject # NULL /\ context.subject # NoName
                       /\ ~AttributeWord(context.subject)
                    THEN {[tags |-> r.tags, ids |-> <<r.id>>] :
                            r \in MigratorEnsureTag(tgs, context.subject, "SUBJECT",
                                                    parentForSubject)}
                    ELSE {[tags |-> tgs, ids |-> <<>>]}
        lessons(s) == IF parentForSubject # NULL /\ context.lessonName # NoName
                      THEN {[tags |-> r.tags, ids |-> s.ids \o <<r.id>>] :
                              r \in MigratorEnsureTag(s.tags, context.lessonName, "LESSON",
                                                      parentForSubject)}
                      ELSE {s}
    IN  UNION {UNION {{[tags |-> e.tags, ids |-> l.ids \o e.ids] :
                          e \in extractFileAttributes(l.tags, text)} :
                      l \in lessons(s)} :
               s \in subjects}

\* 2. resolve final tag chain: every outcome, the table and finalTagIds
FinalTagChain(tgs, context, text) ==
    IF context.isFlexibleRoot
    THEN {[tags |-> e.tags, ids |-> context.inheritedTags \o context.flexibleTags \o e.ids] :
            e \in extractFileAttributes(tgs, text)}
    ELSE UNION {UNION {UNION {
            {[tags |-> l.tags,
              ids |-> context.inheritedTags \o OneId(levelTag) \o OneId(gradeTag)
                      \o OneId(streamTag) \o l.ids] :
               l \in StrictLeaves(tgs, context, text,
                                  IF streamTag # NULL THEN streamTag ELSE gradeTag)} :
            streamTag \in StreamTags(tgs, context, gradeTag)} :
            gradeTag \in GradeTags(tgs, context, levelTag)} :
            levelTag \in LevelTags(tgs, context)}

ResourcesByOriginalDriveId(res, fileId) ==
    {i \in DOMAIN res : res[i].originalDriveId = fileId}

NewMigratedResource(file, newFileId, finalTagIds) ==
    [title |-> file.name, driveFileId |-> newFileId, originalDriveId |-> file.id,
     source |-> "SYSTEM", status |-> "APPROVED", uploaderId |-> "system-sync",
     tags |-> SeqToSet(finalTagIds)]

ZeroMigratorStats == [filesMigrated |-> 0, filesSkipped |-> 0, foldersScanned |-> 0,
                      errors |-> 0]

\* every outcome of migrateFile(file, context)
migrateFile(tgs, res, cps, seen, st, file, context) ==
    LET same == [tags |-> tgs, resources |-> res, copies |-> cps,
                 uniqueFileLog |-> seen, stats |-> st]
        logged == [same EXCEPT !.uniqueFileLog = seen \cup {file.id}]
    IN  IF file.id \in seen THEN {same}
        ELSE IF ResourcesByOriginalDriveId(res, file.id) # {}
        THEN {[logged EXCEPT !.stats.filesSkipped = @ + 1]}
        ELSE {IF c.ids = <<>>
              THEN [logged EXCEPT !.tags = c.tags, !.stats.filesSkipped = @ + 1]
              ELSE [logged EXCEPT
                      !.tags = c.tags,
                      !.copies = Append(cps, [of |-> file.id, name |-> file.name,
                                              path |-> CanonicalPath(context)]),
                      !.resources = Append(res, NewMigratedResource(file, CopyIds[Len(cps) + 1],
                                                                    c.ids)),
                      !.stats.filesMigrated = @ + 1] :
              c \in FinalTagChain(tgs, context, file.name)}

MigratorAtEntry == phase = "migrate" /\ InLoop

MigratorRun ==
    /\ phase = "idle"
    /\ runs < MaxRuns
    /\ rootConfigured
    /\ phase' = "migrate"
    /\ runs' = runs + 1
    /\ users' = users \cup {"system-sync"}
    /\ stack' = <<Frame(ROOT_FOLDER_ID, InitialContext, 0)>>
    /\ stats' = [ZeroMigratorStats EXCEPT !.foldersScanned = 1]
    /\ uniqueFileLog' = {}
    /\ base' = BaseOfRun
    /\ clean' = FALSE
    /\ requested' = <<>>
    /\ processed' = <<>>
    /\ outcome' = "none"
    /\ UNCHANGED <<auxVars, tags, resources, treeVars, envVars, copies, syncProbes>>

\* the safety break, then the first drive.files.list of the folder
MigratorListFolder ==
    /\ phase = "migrate" /\ AtList
    /\ IF Top.depth > MigratorMaxDepth
       THEN stack' = Unwind(Pop(stack)) /\ requested' = requested
       ELSE stack' = Unwind(Respond(stack)) /\ requested' = Requested(200)
    /\ UNCHANGED <<auxVars, tags, resources, users, treeVars, envVars, migratorVars, syncProbes,
                   phase, stats, runs, clean, base, processed, outcome>>

MigratorVisitFolder ==
    /\ MigratorAtEntry /\ Entry.isFolder
    /\ \E r \in deriveFolderContext(tags, Entry.name, Top.ctx) :
           /\ tags' = r.tags
           /\ stack' = Append(Advance(stack), Frame(Entry.id, r.ctx, Top.depth + 1))
    /\ stats' = [stats EXCEPT !.foldersScanned = @ + 1]
    /\ processed' = Handled(TRUE)
    /\ UNCHANGED <<auxVars, resources, users, treeVars, envVars, migratorVars, syncProbes,
                   phase, runs, clean, base, requested, outcome>>

MigrateFile ==
    /\ MigratorAtEntry /\ ~Entry.isFolder
    /\ \E r \in migrateFile(tags, resources, copies, uniqueFileLog, stats, Entry, Top.ctx) :
           /\ tags' = r.tags
           /\ resources' = r.resources
           /\ copies' = r.copies
           /\ uniqueFileLog' = r.uniqueFileLog
           /\ stats' = r.stats
    /\ stack' = Unwind(Advance(stack))
    /\ processed' = Handled(TRUE)
    /\ UNCHANGED <<auxVars, users, treeVars, envVars, syncProbes, phase, runs, clean, base,
                   requested, outcome>>

MigratorFinish ==
    /\ phase = "migrate" /\ stack = <<>>
    /\ phase' = "idle"
    /\ clean' = TRUE
    /\ outcome' = "summary"
    /\ UNCHANGED <<auxVars, tags, resources, users, treeVars, envVars, migratorVars, syncProbes,
                   stack, stats, runs, base, requested, processed>>

(***************************************************************************)
(* Specifications                                                          *)
(***************************************************************************)
InitTables ==
    /\ tags = <<>>
    /\ resources = <<>>
    /\ users = {}
    /\ copies = <<>>
    /\ phase = "idle"
    /\ stack = <<>>
    /\ stats = ZeroStats
    /\ uniqueFileLog = {}
    /\ runs = 0
    /\ edits = 0
    /\ userTags = 0
    /\ seeded = FALSE
    /\ clean = FALSE
    /\ base = NoBase
    /\ ensured = <<>>
    /\ lastUpsert = NoUpsert
    /\ seenAt = [x \in Files |-> "none"]
    /\ requested = <<>>
    /\ processed = <<>>
    /\ outcome = "none"

\* the deployment the runs are normally made in: configured, no second parents, no failures,
\* no other writer
Nominal ==
    /\ links = {}
    /\ rootConfigured = TRUE
    /\ pageSize = PageSize
    /\ faults = 0
    /\ writers = <<>>
    /\ probe = <<>>

\* the trees over the folders, the folders numbered so that a parent precedes its children
FolderOrder == <<"F1", "F2", "F3">>

Trees == {fp \in [Folders -> Folders \cup {ROOT_FOLDER_ID}] :
            /\ IsTree(fp)
            /\ \A i, j \in DOMAIN FolderOrder :
                   fp[FolderOrder[j]] = FolderOrder[i] => i < j}

\* the deployment of DriveSync: the seed script, resyncs, an administrator, the tree's owner
Init ==
    /\ InitTables
    /\ Nominal
    /\ folderParent \in Trees
    /\ folderName \in [Folders -> FolderNames]
    /\ fileParent \in [Files -> Folders \cup {ROOT_FOLDER_ID}]
    /\ fileName = [x \in Files |-> NameN1]

Next ==
    \/ Seed
    \/ StartSync
    \/ ListFolder
    \/ VisitHierarchyFolder
    \/ VisitAttributeFolder
    \/ VisitUnmatchedFolder
    \/ VisitFile
    \/ FinishSync
    \/ AdminTagResource
    \/ MoveFile
    \/ RenameFile

Spec == Init /\ [][Next]_vars

\* the seed script and runs of both tools, in any order, over one database
MigrationInit ==
    /\ InitTables
    /\ Nominal
    /\ folderParent \in Trees
    /\ folderName \in [Folders -> MigrationFolderNames]
    /\ fileParent \in [Files -> Folders \cup {ROOT_FOLDER_ID}]
    /\ fileName \in [Files -> MigrationFileNames]

MigrationNext ==
    \/ Seed
    \/ StartSync
    \/ ListFolder
    \/ VisitHierarchyFolder
    \/ VisitAttributeFolder
    \/ VisitUnmatchedFolder
    \/ VisitFile
    \/ FinishSync
    \/ MigratorRun
    \/ MigratorListFolder
    \/ MigratorVisitFolder
    \/ MigrateFile
    \/ MigratorFinish

MigrationSpec == MigrationInit /\ [][MigrationNext]_vars

(***************************************************************************)
(* Properties                                                              *)
(***************************************************************************)
\* a run that started from the state a completed run left behind
Rerun == base.valid

\* the step is a call of upsertFileResource
UpsertStep == AtEntry /\ ~Entry.isFolder /\ lastUpsert'.called /\ stack' # stack

\* the step is a call of DriveSync.ensureTag
EnsureStep == phase = "sync" /\ Len(ensured') = Len(ensured) + 1

IsAttributeFolder(f) ==
    LET match == categorizeFolder(Trim(folderName[f]))
    IN  match # NoMatch /\ ~match.isHierarchy

RECURSIVE Reaches(_, _, _)
Reaches(i, j, fuel) ==
    /\ fuel > 0
    /\ tags[i].parentId # NULL
    /\ (tags[i].parentId = j \/ Reaches(tags[i].parentId, j, fuel - 1))

\* C1: a run of DriveSync.sync() that starts from the state a completed run left behind,
\* with the remote tree unchanged, creates no Tag row and changes no Tag or Resource row.
IdempotentRerun ==
    [][(phase = "sync" /\ Rerun) => (tags' = tags /\ resources' = resources)]_vars

\* C2: every remote file id is the driveFileId of at most one Resource row, and a rerun
\* over an unchanged tree leaves every resource with the tag set it had.
DedupByExternalId ==
    /\ \A x \in Files : Cardinality(ResourcesByDriveFileId(resources, x)) <= 1
    /\ (phase = "idle" /\ clean /\ Rerun) =>
           \A i \in DOMAIN base.resources : resources[i].tags = base.resources[i].tags

\* C3: when upsertFileResource finds the resource of the file, the tag set it leaves is
\* the union of hierarchyTagIds and the tags attached before whose parentId is null, and
\* the title is the current file name.
SafeMerge ==
    [][(UpsertStep /\ lastUpsert'.existed) =>
          LET u == lastUpsert'
          IN  /\ resources'[u.id].tags =
                    SeqToSet(u.hierarchyTagIds) \cup {t \in u.before : tags[t].parentId = NULL}
              /\ resources'[u.id].title = fileName[u.fileId]
              /\ \A i \in DOMAIN resources : i # u.id => resources'[i] = resources[i]]_vars

\* a resync met the resource of a renamed file that carried a parentless USER tag and a
\* hierarchy tag, and left the USER tag attached
SafeMergeWitness ==
    /\ lastUpsert.called /\ lastUpsert.existed
    /\ lastUpsert.hierarchyTagIds # <<>>
    /\ resources[lastUpsert.id].title = NameN2
    /\ \E t \in lastUpsert.before :
          /\ tags[t].source = "USER" /\ tags[t].parentId = NULL
          /\ t \in resources[lastUpsert.id].tags

\* C4: after a resync that finds a file in another folder than the resync before did, the
\* resource carries no tag of a hierarchy group that is not on the file's current path.
StaleHierarchyTagsDropped ==
    [][(UpsertStep /\ seenAt[Entry.id] \notin {"none", Top.folderId}) =>
          LET u == lastUpsert'
          IN  \A t \in resources'[u.id].tags :
                 tags[t].group \in HierarchyGroups => t \in SeqToSet(u.hierarchyTagIds)]_vars

\* C5: a file below an attribute folder is upserted with the ids of all enclosing hierarchy
\* tags and with a tag of that attribute folder (its name, its attribute group).
AttributeInheritance ==
    [][UpsertStep =>
          LET u == lastUpsert'
          IN  /\ SeqToSet(u.hierarchyTagIds) \subseteq resources'[u.id].tags
              /\ \A f \in FoldersAbove(u.fileId) :
                    IsAttributeFolder(f) =>
                       \E t \in resources'[u.id].tags :
                          /\ tags[t].name = Trim(folderName[f])
                          /\ tags[t].group = categorizeFolder(Trim(folderName[f])).group]_vars

\* C6: the context an attribute folder passes to its children has the parent tag and the
\* ancestor tags of the attribute folder's own context, under DriveSync and under the
\* migrator, and no Tag has a tag of an attribute group as its parent.
AttributeFlattening ==
    [][/\ \A i \in DOMAIN tags' :
              tags'[i].parentId # NULL =>
                 tags'[tags'[i].parentId].group \notin AttributeGroups
       /\ (InLoop /\ Entry.isFolder /\ IsAttributeFolder(Entry.id)
             /\ Len(stack') = Len(stack) + 1) =>
             LET child == stack'[Len(stack')].ctx
             IN  IF phase = "sync"
                 THEN /\ child.currentParentTagId = Top.ctx.currentParentTagId
                      /\ child.tagIds = Top.ctx.tagIds
                 ELSE /\ child.parentTagId = Top.ctx.parentTagId
                      /\ child.flexibleTags = Top.ctx.flexibleTags
                      /\ child.levelName = Top.ctx.levelName
                      /\ child.gradeName = Top.ctx.gradeName
                      /\ child.streamName = Top.ctx.streamName
                      /\ child.subject = Top.ctx.subject
                      /\ child.lessonName = Top.ctx.lessonName]_vars

\* DriveSync is below an attribute folder that lies under a hierarchy tag, after the
\* migrator has catalogued a file below an attribute folder of a flexible root
AttributeFlatteningWitness ==
    /\ phase = "sync"
    /\ \E k \in 2..Len(stack) :
          /\ IsAttributeFolder(stack[k].folderId)
          /\ stack[k].ctx.currentParentTagId # UNDEF
          /\ stack[k].ctx.tagIds # <<>>
    /\ \E i \in DOMAIN resources :
          /\ resources[i].originalDriveId # "null"
          /\ \E a, h \in resources[i].tags :
                 tags[a].group \in AttributeGroups /\ tags[h].group \notin AttributeGroups

\* C7: the parentId relation over the Tag rows is acyclic.
ForestInvariant == \A i \in DOMAIN tags : ~Reaches(i, i, Len(tags))

\* C8: every Tag whose group is MEDIUM, RESOURCE_TYPE, EXAM or YEAR has parentId null.
AttributeTagsParentless ==
    \A i \in DOMAIN tags : tags[i].group \in AttributeGroups => tags[i].parentId = NULL

\* the migrator has made an attribute tag for a folder below a hierarchy tag, in a database
\* that was not seeded, and a run of DriveSync has followed
AttributeTagsParentlessWitness ==
    /\ ~seeded /\ phase = "idle" /\ runs = MaxRuns
    /\ \E i \in DOMAIN tags : tags[i].group \in AttributeGroups
    /\ \E i \in DOMAIN tags : tags[i].parentId # NULL
    /\ \E i \in DOMAIN resources : resources[i].originalDriveId = "null"
    /\ \E i \in DOMAIN resources : resources[i].originalDriveId # "null"

\* C9: two folders of the same name walked under two different parent tags get two Tag
\* rows with different slugs, each with the tag of its own parent folder as parentId.
SameNameSiblings ==
    \A a, b \in DOMAIN ensured :
        LET x == ensured[a]
            y == ensured[b]
        IN  (a < b /\ x.name = y.name /\ x.parentId # UNDEF /\ y.parentId # UNDEF
               /\ x.parentId # y.parentId) =>
                /\ x.id # y.id
                /\ tags[x.id].slug # tags[y.id].slug
                /\ tags[x.id].parentId = x.parentId
                /\ tags[y.id].parentId = y.parentId

\* C10: when ensureTag returns the id of a tag that existed, the stored row has the
\* requested group, the freshly computed slug and the requested parent (null at top level).
DriftCorrected ==
    [][EnsureStep =>
          LET c == ensured'[Len(ensured')]
          IN  ~c.created =>
                 /\ tags'[c.id].group = c.group
                 /\ tags'[c.id].slug = c.slug
                 /\ tags'[c.id].parentId = OrNull(c.parentId)]_vars

(***************************************************************************)
(* The fallback for folders that no classifier rule matches                *)
(***************************************************************************)
\* a SUBJECT tag is among the hierarchy tags of the context
SubjectOnPath(ctx) == \E i \in DOMAIN ctx.tagIds : tags[ctx.tagIds[i]].group = "SUBJECT"

\* C12: a folder that matches no classifier rule is materialised as a SUBJECT tag when no
\* SUBJECT is on the path from the root to it, and as a LESSON tag when one is
PositionalFallback ==
    [][(EnsureStep /\ categorizeFolder(ensured'[Len(ensured')].name) = NoMatch)
          => ensured'[Len(ensured')].group =
                 (IF SubjectOnPath(Top.ctx) THEN "LESSON" ELSE "SUBJECT")]_vars

(***************************************************************************)
(* The classifier on its own: a name, categorizeFolder and the migrator's  *)
(* stream test applied to it                                               *)
(***************************************************************************)
runVars == <<phase, stack, stats, runs, clean, base>>

ClassifierWords == {<<"S","c","i","e","n","c","e">>, <<"C","o","m","m","e","r","c","e">>,
                    <<"A","r","t","s">>, <<"T","e","c","h","n","o","l","o","g","y">>,
                    <<"T","e","c","h">>, <<"M","a","t","h","s">>, NameBiology,
                    <<"a","r","t","s">>}
ClassifierQualifiers == {<<>>, <<" ","S","t","r","e","a","m">>, <<" "," ","S","t","r","e","a","m">>,
                         <<" ","s","t","r","e","a","m">>, <<"S","t","r","e","a","m">>,
                         <<" ","S","t","r","e","a","m","s">>}
ClassifierPadding == {<<>>, <<" ">>}
ClassifierNames == {l \o w \o q \o r : l \in ClassifierPadding, w \in ClassifierWords,
                                       q \in ClassifierQualifiers, r \in ClassifierPadding}
\* names for the rules of the table: one or none per entry, names that end in "Subjects",
\* and unit markers
RuleProbeWords == {NameALSubjects, NameGrade12, NameEnglishMedium, NameNotes, NameYear, NameUnit1,
                   NamePrimary,
                   <<"P","r","i","m","a","r","y"," ","S","u","b","j","e","c","t","s">>,
                   <<"B","i","o","l","o","g","y"," ","S","u","b","j","e","c","t","s">>,
                   <<"G","r","a","d","e"," ","1","0"," ","S","u","b","j","e","c","t","s">>,
                   <<"1","s","t"," ","T","e","r","m">>}
UnitMarkers == {<<"U","n","i","t"," ","1">>, <<"L","e","s","s","o","n"," ","2">>,
                <<"C","h","a","p","t","e","r"," ","3">>,
                <<"0","1","."," ","I","n","t","r","o">>,
                <<"0","2"," ","-"," ","C","e","l","l","s">>}
RuleProbeNames == {l \o w \o r : l \in ClassifierPadding, w \in RuleProbeWords \cup UnitMarkers,
                                  r \in ClassifierPadding}
\* the stream keywords of the STREAM rule, without qualifier
BareStreamKeywords == {<<"S","c","i","e","n","c","e">>, <<"C","o","m","m","e","r","c","e">>,
                       <<"A","r","t","s">>}

ClassifierInit ==
    /\ InitTables
    /\ links = {} /\ rootConfigured = TRUE /\ pageSize = PageSize /\ faults = 0
    /\ writers = <<>>
    /\ folderParent = [f \in Folders |-> ROOT_FOLDER_ID]
    /\ folderName = [f \in Folders |-> NameAL]
    /\ fileParent = [x \in Files |-> ROOT_FOLDER_ID]
    /\ fileName = [x \in Files |-> NameN1]
    /\ probe \in {[name |-> n, category |-> "pending", stream |-> "pending"] :
                     n \in ClassifierNames \cup RuleProbeNames}

\* categorizeFolder(name)
Classify ==
    /\ probe.category = "pending"
    /\ probe' = [probe EXCEPT !.category = categorizeFolderOf(probe.name).group]
    /\ UNCHANGED <<tags, resources, users, treeVars, envVars, migratorVars, syncProbes, walkLog,
                   runVars, links, rootConfigured, pageSize, faults, writers>>

\* the test deriveFolderContext makes of cleanName before it sets streamName
MigratorStreamTest ==
    /\ probe.stream = "pending"
    /\ probe' = [probe EXCEPT
                   !.stream = IF MigratorStreamPattern(Trim(probe.name)) THEN "yes" ELSE "no"]
    /\ UNCHANGED <<tags, resources, users, treeVars, envVars, migratorVars, syncProbes, walkLog,
                   runVars, links, rootConfigured, pageSize, faults, writers>>

ClassifierNext == Classify \/ MigratorStreamTest

ClassifierSpec == ClassifierInit /\ [][ClassifierNext]_vars

\* C13: the classifier maps "Science Stream" to STREAM and a bare stream keyword
\* ("Science", "Commerce", "Arts") to something other than STREAM
ClassificationPriority ==
    probe.category # "pending" =>
        /\ probe.name = NameScienceStream => probe.category = "STREAM"
        /\ probe.name \in BareStreamKeywords => probe.category # "STREAM"

(***************************************************************************)
(* Runs in an environment that can be misconfigured, pages listings and    *)
(* lets calls fail                                                         *)
(***************************************************************************)
deployVars == <<links, rootConfigured, pageSize, writers, probe>>

\* the status of a failed list call: rate limit, or any other error
ErrorCodes == {403, 500}

\* sync() with the system user upserted ahead of the configuration check
SyncAbortedAfterUpsert ==
    /\ phase = "idle"
    /\ runs < MaxRuns
    /\ ~rootConfigured
    /\ runs' = runs + 1
    /\ outcome' = "thrown"
    /\ users' = users \cup {"system-sync"}
    /\ UNCHANGED <<auxVars, tags, resources, treeVars, envVars, migratorVars, syncProbes,
                   phase, stack, stats, clean, base, requested, processed>>

\* sync() without ROOT_FOLDER_ID: the error is logged and rethrown to the caller
SyncAborted ==
    /\ phase = "idle"
    /\ runs < MaxRuns
    /\ ~rootConfigured
    /\ runs' = runs + 1
    /\ outcome' = "thrown"
    /\ UNCHANGED <<auxVars, tags, resources, users, treeVars, envVars, migratorVars, syncProbes,
                   phase, stack, stats, clean, base, requested, processed>>

\* drive.files.list throws: the catch of processFolder counts the error and the call returns
ListFails(code) ==
    /\ phase = "sync" /\ AtList
    /\ faults > 0
    /\ faults' = faults - 1
    /\ requested' = Requested(code)
    /\ stats' = [stats EXCEPT !.errorsEncountered = @ + 1]
    /\ stack' = Unwind(Pop(stack))
    /\ UNCHANGED <<deployVars, tags, resources, users, treeVars, envVars, migratorVars,
                   syncProbes, phase, runs, clean, base, processed, outcome>>

\* ensureTag throws for a folder entry: the error leaves the loop of the enclosing
\* processFolder, whose catch counts it
EnsureTagFails ==
    /\ AtEntry /\ Entry.isFolder
    /\ LET patternMatch == categorizeFolder(Trim(Entry.name))
       IN  patternMatch = NoMatch \/ patternMatch.isHierarchy
    /\ faults > 0
    /\ faults' = faults - 1
    /\ processed' = Handled(FALSE)
    /\ stats' = [stats EXCEPT !.foldersScanned = @ + 1, !.errorsEncountered = @ + 1]
    /\ stack' = Unwind(Pop(stack))
    /\ UNCHANGED <<deployVars, tags, resources, users, treeVars, envVars, migratorVars,
                   syncProbes, phase, runs, clean, base, requested, outcome>>

\* a failed upsert whose error leaves upsertFileResource and the loop of processFolder
UpsertFailsThrowing ==
    /\ AtEntry /\ ~Entry.isFolder
    /\ faults > 0
    /\ faults' = faults - 1
    /\ processed' = Handled(FALSE)
    /\ stats' = [stats EXCEPT !.errorsEncountered = @ + 1]
    /\ stack' = Unwind(Pop(stack))
    /\ UNCHANGED <<deployVars, tags, resources, users, treeVars, envVars, migratorVars,
                   syncProbes, phase, runs, clean, base, requested, outcome>>

\* a database call of upsertFileResource throws: its own catch counts the error, the
\* success counter is not reached, and the call returns to the loop of processFolder
UpsertFails ==
    /\ AtEntry /\ ~Entry.isFolder
    /\ faults > 0
    /\ faults' = faults - 1
    /\ processed' = Handled(TRUE)
    /\ stats' = [stats EXCEPT !.errorsEncountered = @ + 1]
    /\ stack' = Unwind(Advance(stack))
    /\ UNCHANGED <<deployVars, tags, resources, users, treeVars, envVars, migratorVars,
                   syncProbes, phase, runs, clean, base, requested, outcome>>

\* drive.files.list throws in the migrator: errors++, a sleep on 403, then break
MigratorListFails(code) ==
    /\ phase = "migrate" /\ AtList
    /\ Top.depth <= MigratorMaxDepth
    /\ faults > 0
    /\ faults' = faults - 1
    /\ requested' = Requested(code)
    /\ stats' = [stats EXCEPT !.errors = @ + 1]
    /\ stack' = Unwind(Pop(stack))
    /\ UNCHANGED <<deployVars, tags, resources, users, treeVars, envVars, migratorVars,
                   syncProbes, phase, runs, clean, base, processed, outcome>>

\* a database call of deriveFolderContext throws: the same catch, errors++ and break
MigratorDeriveFails ==
    /\ MigratorAtEntry /\ Entry.isFolder
    /\ ~MigratorGradePattern(Trim(Entry.name)) /\ ~MigratorStreamPattern(Trim(Entry.name))
    /\ faults > 0
    /\ faults' = faults - 1
    /\ processed' = Handled(FALSE)
    /\ stats' = [stats EXCEPT !.errors = @ + 1]
    /\ stack' = Unwind(Pop(stack))
    /\ UNCHANGED <<deployVars, tags, resources, users, treeVars, envVars, migratorVars,
                   syncProbes, phase, runs, clean, base, requested, outcome>>

WalkFolderNames == {NameGrade12, NameYear, NameAL}
\* the page lengths the remote store answers with
PageSizes == {1, 2, PageSize}

WalkInit ==
    /\ InitTables
    /\ links = {}
    /\ writers = <<>>
    /\ probe = <<>>
    /\ rootConfigured \in BOOLEAN
    /\ pageSize \in PageSizes
    /\ faults \in 0..MaxFaults
    /\ folderParent \in Trees
    /\ folderName \in {fn \in [Folders -> WalkFolderNames] :
                           fn["F1"] # NameYear /\ fn["F2"] # NameGrade12 /\ fn["F3"] = NameGrade12}
    /\ fileParent \in [Files -> {ROOT_FOLDER_ID, "F1", "F2"}]
    /\ fileName = [x \in Files |-> NameN1]

WalkNext ==
    \/ SyncAborted
    \/ StartSync
    \/ ListFolder
    \/ \E code \in ErrorCodes : ListFails(code)
    \/ VisitHierarchyFolder
    \/ VisitAttributeFolder
    \/ VisitUnmatchedFolder
    \/ EnsureTagFails
    \/ VisitFile
    \/ UpsertFails
    \/ FinishSync
    \/ MigratorRun
    \/ MigratorListFolder
    \/ \E code \in ErrorCodes : MigratorListFails(code)
    \/ MigratorVisitFolder
    \/ MigratorDeriveFails
    \/ MigrateFile
    \/ MigratorFinish

WalkSpec == WalkInit /\ [][WalkNext]_vars

\* C20: a run started without the root folder id fails, and neither a list call is made
\* nor a Tag, Resource or User row created or changed
ConfigurationFatal ==
    [][(~rootConfigured /\ runs' = runs + 1)
          => (outcome' = "thrown" /\ UNCHANGED <<tags, resources, users, requested>>)]_vars

ConfigurationFatalWitness == ~rootConfigured /\ runs = 1 /\ outcome = "thrown"

(***************************************************************************)
(* What a run asked of the remote store and what its loops handled         *)
(***************************************************************************)
RequestsOf(f) == SelectSeq(requested, LAMBDA r : r.folder = f)
HandledIn(f) == SelectSeq(processed, LAMBDA h : h.folder = f)
\* processFolder(f) was called in this run and has returned
Returned(f) ==
    /\ RequestsOf(f) # <<>>
    /\ \A k \in DOMAIN stack : stack[k].folderId # f
\* no call made for folder f failed
Undisturbed(f) ==
    /\ \A i \in DOMAIN requested : requested[i].folder = f => requested[i].code = 200
    /\ \A i \in DOMAIN processed : processed[i].folder = f => processed[i].ok

\* C15: a folder whose listing comes in k pages, none of its calls failing, has had its
\* pages requested in order, 1 to k, and every entry of every page processed exactly
\* once, in listing order, when processFolder returns
PaginationDrain ==
    \A f \in Folders \cup {ROOT_FOLDER_ID} :
        (Returned(f) /\ Undisturbed(f)) =>
            /\ RequestsOf(f) = [k \in 1..PageCount(f) |->
                                   [folder |-> f, page |-> k, depth |-> RequestsOf(f)[1].depth,
                                    code |-> 200]]
            /\ [i \in DOMAIN HandledIn(f) |-> HandledIn(f)[i].id]
                   = [i \in DOMAIN Listing(f) |-> Listing(f)[i].id]

PaginationDrainWitness ==
    \E f \in Folders \cup {ROOT_FOLDER_ID} :
        /\ Returned(f) /\ Undisturbed(f)
        /\ PageCount(f) >= 3
        /\ Len(HandledIn(f)) = Len(Listing(f))

\* the run is over and has printed its summary
Summarised == phase = "idle" /\ outcome = "summary"
\* the entries of folder f from page p on
FromPage(f, p) == {Listing(f)[i].id : i \in ((p - 1) * pageSize + 1)..Len(Listing(f))}
HandledIds(f) == {HandledIn(f)[i].id : i \in DOMAIN HandledIn(f)}
Errors == IF "errors" \in DOMAIN stats THEN stats.errors ELSE stats.errorsEncountered

\* C16: after a list call for page p of a folder failed with a rate-limit error, the same
\* page is requested again, and by the end of the run the entries of page p and of the
\* later pages of that folder have been processed
RateLimitRetry ==
    Summarised =>
        \A i \in DOMAIN requested :
            requested[i].code = 403 =>
                /\ \E j \in DOMAIN requested :
                       /\ j > i
                       /\ requested[j].folder = requested[i].folder
                       /\ requested[j].page = requested[i].page
                /\ FromPage(requested[i].folder, requested[i].page)
                       \subseteq HandledIds(requested[i].folder)

\* the child folders whose processing failed: their listing, or the materialising of their tag
FailedListings == {requested[i].folder : i \in {j \in DOMAIN requested : requested[j].code # 200}}
FailedEntries == {processed[i].id : i \in {j \in DOMAIN processed : ~processed[j].ok}}

\* C17: when the processing of a child folder failed, the failure is counted and every
\* entry of the parent folder has still been processed by the end of the run
FolderIsolation ==
    Summarised =>
        \A c \in (FailedListings \cup FailedEntries) \ {ROOT_FOLDER_ID} :
            /\ Errors >= 1
            /\ \A i \in DOMAIN Listing(folderParent[c]) :
                   Listing(folderParent[c])[i].id \in HandledIds(folderParent[c])

(***************************************************************************)
(* Runs over folder graphs in which a folder is listed in a second parent, *)
(* among them graphs in which a folder is reachable from itself            *)
(***************************************************************************)
DeepFolderNames == [F1 |-> NameGrade12, F2 |-> NameYear, F3 |-> NameAL]

DeepInit ==
    /\ InitTables
    /\ writers = <<>>
    /\ probe = <<>>
    /\ rootConfigured = TRUE
    /\ pageSize = PageSize
    /\ faults = 0
    /\ links \in {{}} \cup {{<<p, c>>} : p \in Folders, c \in Folders}
    /\ folderParent \in Trees
    /\ folderName = DeepFolderNames
    /\ fileParent \in [Files -> Folders \cup {ROOT_FOLDER_ID}]
    /\ fileName = [x \in Files |-> NameN1]

DeepNext ==
    \/ StartSync
    \/ ListFolder
    \/ VisitHierarchyFolder
    \/ VisitAttributeFolder
    \/ VisitUnmatchedFolder
    \/ VisitFile
    \/ FinishSync
    \/ MigratorRun
    \/ MigratorListFolder
    \/ MigratorVisitFolder
    \/ MigrateFile
    \/ MigratorFinish

DeepSpec == DeepInit /\ [][DeepNext]_vars

\* the graphs of the liveness specification: a tree, and the same tree with F1 listed in itself
LiveInit ==
    /\ DeepInit
    /\ folderParent = [F1 |-> ROOT_FOLDER_ID, F2 |-> "F1", F3 |-> ROOT_FOLDER_ID]
    /\ links \in {{}, {<<"F1", "F1">>}}
    /\ fileParent \in [Files -> {"F1", ROOT_FOLDER_ID}]

\* every call the walker awaits returns: a run that can take a step takes one
LiveSpec == LiveInit /\ [][DeepNext]_vars /\ WF_vars(DeepNext)

\* C18: a folder deeper than the maximum recursion depth is never listed: the branch is
\* given up with the error counter incremented
DepthGuard ==
    [][(phase # "idle" /\ AtList /\ Top.depth > MigratorMaxDepth)
          => (requested' = requested /\ Errors' = Errors + 1)]_vars

ScenarioFolders == <<"F1", "F2", "F3", "F4", "F5", "F6">>
ScenarioChain == <<"LEVEL", "GRADE", "STREAM", "SUBJECT", "LESSON">>

ScenarioInit ==
    /\ InitTables
    /\ Nominal
    /\ folderParent = [f \in SeqToSet(ScenarioFolders) |->
                          IF f = "F1" THEN ROOT_FOLDER_ID
                          ELSE ScenarioFolders[(CHOOSE i \in DOMAIN ScenarioFolders :
                                                    ScenarioFolders[i] = f) - 1]]
    /\ folderName = [f \in SeqToSet(ScenarioFolders) |->
                        ScenarioPath[CHOOSE i \in DOMAIN ScenarioFolders : ScenarioFolders[i] = f]]
    /\ fileParent \in [Files -> SeqToSet(ScenarioFolders) \cup {ROOT_FOLDER_ID}]
    /\ fileName = [x \in Files |-> NameNotesPdf]

ScenarioSpec == ScenarioInit /\ [][MigrationNext]_vars

TagsOfGroup(g) == {i \in DOMAIN tags : tags[i].group = g}
TheTag(g) == CHOOSE i \in TagsOfGroup(g) : TRUE

\* C14: the walk of root > "A/L Subjects" > "Grade 12" > "Science Stream" > "Biology" >
\* "English Medium" > "Unit 1 - Cells" > notes.pdf from an empty database leaves five
\* hierarchy tags LEVEL > GRADE > STREAM > SUBJECT (Biology) > LESSON (Unit 1 - Cells),
\* each the child of the one before, one parentless MEDIUM tag "English Medium" that is
\* nobody's parent, and one resource tagged with exactly these six tags
EndToEndScenario ==
    (Summarised /\ runs = 1 /\ ~seeded /\ fileParent["X1"] = "F6") =>
        /\ Len(tags) = 6
        /\ \A g \in SeqToSet(ScenarioChain) \cup {"MEDIUM"} : Cardinality(TagsOfGroup(g)) = 1
        /\ tags[TheTag("LEVEL")].parentId = NULL
        /\ \A k \in 2..Len(ScenarioChain) :
               tags[TheTag(ScenarioChain[k])].parentId = TheTag(ScenarioChain[k - 1])
        /\ tags[TheTag("SUBJECT")].name = NameBiology
        /\ tags[TheTag("LESSON")].name = NameUnit1
        /\ tags[TheTag("MEDIUM")].name = NameEnglishMedium
        /\ tags[TheTag("MEDIUM")].parentId = NULL
        /\ Len(resources) = 1
        /\ resources[1].tags = DOMAIN tags

(***************************************************************************)
(* Two callers of ensureTag for one node, their awaited database calls     *)
(* interleaved.  "sync" is DriveSync.ensureTag, "legacy" the ensureTag of  *)
(* DriveMigration                                                          *)
(***************************************************************************)
RaceNames == {NameBiology, NameUnit1, NameAL, UserTagName}

Writer(kind, name) ==
    [kind |-> kind, name |-> name, group |-> "LESSON", parentId |-> UNDEF,
     parentSlug |-> NoSlug, pc |-> "find", tag |-> NULL, result |-> NULL]

WriterSlug(w) == FinalSlug(BaseSlugOf(Trim(writers[w].name)), writers[w].parentSlug)
TagsByName(tgs, name) == {i \in DOMAIN tgs : tgs[i].name = name}

\* the rows the lookup the writer is at can return
WriterLookup(w) ==
    LET wr == writers[w]
    IN  IF wr.kind = "legacy" THEN TagsByName(tags, Trim(wr.name))
        ELSE IF wr.pc = "find" THEN TagsBySlug(tags, WriterSlug(w))
        ELSE TagsByNameParent(tags, Trim(wr.name), OrNull(wr.parentId))

RaceInit ==
    /\ InitTables
    /\ links = {} /\ rootConfigured = TRUE /\ pageSize = PageSize /\ faults = 0
    /\ probe = <<>>
    /\ folderParent = [f \in Folders |-> ROOT_FOLDER_ID]
    /\ folderName = [f \in Folders |-> NameAL]
    /\ fileParent = [x \in Files |-> ROOT_FOLDER_ID]
    /\ fileName = [x \in Files |-> NameN1]
    /\ writers \in {<<Writer(k, n), Writer(k, n)>> : k \in {"sync", "legacy"}, n \in RaceNames}

\* prisma.tag.findFirst: by slug, then by name and parentId; by name in the legacy script,
\* which also looks the name up again after a failed create
WriterFinds(w) ==
    /\ writers[w].pc \in {"find", "fallback", "reread"}
    /\ LET wr == writers[w]
           rows == WriterLookup(w)
       IN  IF rows = {}
           THEN writers' = [writers EXCEPT ![w].pc =
                               IF wr.pc = "reread" THEN "threw"
                               ELSE IF wr.pc = "find" /\ wr.kind = "sync" THEN "fallback"
                               ELSE "create"]
           ELSE \E i \in rows :
                    writers' = [writers EXCEPT
                                  ![w].tag = i,
                                  ![w].result = IF wr.kind = "legacy" THEN i ELSE NULL,
                                  ![w].pc = IF wr.kind = "legacy" THEN "done" ELSE "update"]
    /\ UNCHANGED <<tags, resources, users, treeVars, envVars, migratorVars, syncProbes, walkLog,
                   runVars, links, rootConfigured, pageSize, faults, probe>>

\* prisma.tag.create.  When a row with the slug exists by now the outcome depends on the
\* schema in force: the unique index rejects the insert, or a second row is stored
WriterCreates(w) ==
    /\ writers[w].pc = "create"
    /\ LET wr == writers[w]
           row == NewSystemTag(Trim(wr.name), WriterSlug(w), wr.group, wr.parentId)
           stored == /\ tags' = Append(tags, row)
                     /\ writers' = [writers EXCEPT ![w].tag = Len(tags) + 1,
                                                   ![w].result = Len(tags) + 1,
                                                   ![w].pc = "done"]
           rejected == /\ tags' = tags
                       /\ writers' = [writers EXCEPT ![w].pc =
                                         IF wr.kind = "legacy" THEN "reread" ELSE "threw"]
       IN  IF TagsBySlug(tags, WriterSlug(w)) = {} THEN stored ELSE stored \/ rejected
    /\ UNCHANGED <<resources, users, treeVars, envVars, migratorVars, syncProbes, walkLog,
                   runVars, links, rootConfigured, pageSize, faults, probe>>

\* prisma.tag.update of the row found, when it differs from the arguments
WriterUpdates(w) ==
    /\ writers[w].pc = "update"
    /\ LET wr == writers[w]
       IN  /\ tags' = IF NeedsUpdate(tags[wr.tag], wr.group, wr.parentId, WriterSlug(w))
                      THEN [tags EXCEPT ![wr.tag] = UpdatedTag(tags[wr.tag], wr.group,
                                                               wr.parentId, WriterSlug(w))]
                      ELSE tags
           /\ writers' = [writers EXCEPT ![w].result = wr.tag, ![w].pc = "done"]
    /\ UNCHANGED <<resources, users, treeVars, envVars, migratorVars, syncProbes, walkLog,
                   runVars, links, rootConfigured, pageSize, faults, probe>>

RaceNext ==
    \/ \E w \in DOMAIN writers : WriterFinds(w)
    \/ \E w \in DOMAIN writers : WriterCreates(w)
    \/ \E w \in DOMAIN writers : WriterUpdates(w)

RaceSpec == RaceInit /\ [][RaceNext]_vars

\* C11: when two interleaved calls of ensureTag for one node have both ended, neither has
\* thrown, one Tag row exists for the node and both calls returned its id
ConcurrentEnsureTag ==
    (\A w \in DOMAIN writers : writers[w].pc \in {"done", "threw"}) =>
        /\ \A w \in DOMAIN writers : writers[w].pc = "done"
        /\ Cardinality(TagsByName(tags, Trim(writers[1].name))) = 1
        /\ \A w \in DOMAIN writers :
               writers[w].result \in TagsByName(tags, Trim(writers[1].name))

(***************************************************************************)
(* Frame of a sync run: what its steps leave in the tables                 *)
(***************************************************************************)
\* C21: during a sync run no Tag row and no Resource row that existed before a step is
\* absent after it: every id stays, with the name or the remote file it was stored for
NeverDeletes ==
    [][phase = "sync" =>
          /\ \A i \in DOMAIN tags : i \in DOMAIN tags' /\ tags'[i].name = tags[i].name
          /\ \A i \in DOMAIN resources :
                 i \in DOMAIN resources' /\ resources'[i].driveFileId = resources[i].driveFileId]_vars

\* a run has found a catalogued file again and has found a stored tag again
NeverDeletesWitness ==
    /\ phase = "sync"
    /\ lastUpsert.called /\ lastUpsert.existed
    /\ \E i \in DOMAIN ensured : ~ensured[i].created
    /\ Len(resources) >= 1

\* C22: at every point of a walk the tags of the enclosing folders are stored: the contexts
\* of the activations name stored tags only, every Tag.parentId is null or a stored tag,
\* and every tag connected to a Resource is a stored tag
ParentBeforeChild ==
    /\ \A i \in DOMAIN tags : tags[i].parentId \in DOMAIN tags \cup {NULL}
    /\ \A i \in DOMAIN resources : resources[i].tags \subseteq DOMAIN tags
    /\ phase = "sync" =>
           \A k \in DOMAIN stack :
               /\ SeqToSet(stack[k].ctx.tagIds) \subseteq DOMAIN tags
               /\ stack[k].ctx.currentParentTagId \in DOMAIN tags \cup {UNDEF}

\* a file has been upserted two folders down, below a tag that was created under its parent
ParentBeforeChildWitness ==
    /\ phase = "sync"
    /\ lastUpsert.called /\ Len(lastUpsert.hierarchyTagIds) >= 2
    /\ \E i \in DOMAIN ensured : ensured[i].created /\ ensured[i].parentId \in DOMAIN tags
    /\ \E i \in DOMAIN resources : Cardinality(resources[i].tags) >= 2

\* C23: a step of a walk leaves the context of every activation that stays on the stack as
\* it was, whatever subtree it has just processed, and the tag ids a file is upserted with
\* were all ensured, in this run, for folders on the path from the root to the file
ContextIsolation ==
    [][phase # "idle" =>
          /\ \A k \in DOMAIN stack \cap DOMAIN stack' :
                 stack'[k].folderId = stack[k].folderId /\ stack'[k].ctx = stack[k].ctx
          /\ UpsertStep =>
                 \A t \in SeqToSet(lastUpsert'.hierarchyTagIds) :
                     \E i \in DOMAIN ensured :
                         ensured[i].id = t /\ ensured[i].folder \in FoldersAbove(Entry.id)]_vars

\* a file has been upserted after a folder listed before it in the same folder was walked
ContextIsolationWitness ==
    /\ phase = "sync" /\ lastUpsert.called
    /\ \E a, b \in DOMAIN processed :
           /\ a < b
           /\ processed[a].folder = processed[b].folder
           /\ processed[b].id = lastUpsert.fileId
           /\ \E i \in DOMAIN ensured : ensured[i].folder = processed[a].id

\* the folders above folder f for which processFolder ensured a tag, outermost first:
\* attribute folders hand their caller's context on and are skipped
TaggedAbove(f) ==
    SelectSeq(PathTo(folderParent[f], Cardinality(Folders)), LAMBDA g : ~IsAttributeFolder(g))

\* the id ensured in this run for folder g
EnsuredFor(g) == (CHOOSE i \in DOMAIN ensured : ensured[i].folder = g)

\* the step ensures the tag of a folder that categorizeFolder places in a hierarchy group
HierarchyStep ==
    /\ EnsureStep /\ AtEntry /\ Entry.isFolder
    /\ categorizeFolder(Trim(Entry.name)) # NoMatch
    /\ categorizeFolder(Trim(Entry.name)).isHierarchy

\* DriveSync.processFolder: when it meets a folder of a hierarchy group, ensureTag is called
\* with the tag of the nearest enclosing folder that got a tag (none at the top) as parentId,
\* and the context of the folder's children has that new tag as currentParentTagId and the
\* caller's tagIds with the new id appended
HierarchyTransition ==
    [][HierarchyStep =>
          LET call == ensured'[Len(ensured')]
              child == stack'[Len(stack')]
              above == TaggedAbove(Entry.id)
          IN  /\ call.folder = Entry.id
              /\ \A i \in DOMAIN above : \E j \in DOMAIN ensured : ensured[j].folder = above[i]
              /\ call.parentId = IF above = <<>> THEN UNDEF
                                 ELSE ensured[EnsuredFor(above[Len(above)])].id
              /\ child.folderId = Entry.id
              /\ child.ctx.currentParentTagId = call.id
              /\ child.ctx.tagIds = Append(Top.ctx.tagIds, call.id)
              /\ Len(Top.ctx.tagIds) = Len(above)]_vars

\* a hierarchy folder two levels down has been ensured under its parent folder's tag
HierarchyTransitionWitness ==
    /\ phase = "sync"
    /\ \E i \in DOMAIN ensured :
           /\ categorizeFolder(Trim(ensured[i].name)) # NoMatch
           /\ categorizeFolder(Trim(ensured[i].name)).isHierarchy
           /\ ensured[i].parentId # UNDEF
           /\ \E k \in DOMAIN stack :
                  /\ stack[k].folderId = ensured[i].folder
                  /\ Len(stack[k].ctx.tagIds) >= 2
                  /\ stack[k].ctx.currentParentTagId = ensured[i].id

\* a hierarchy folder below an attribute folder has been ensured under a tag
HierarchyTransitionSkips ==
    /\ phase = "sync"
    /\ \E i \in DOMAIN ensured :
           /\ folderParent[ensured[i].folder] # ROOT_FOLDER_ID
           /\ IsAttributeFolder(folderParent[ensured[i].folder])
           /\ categorizeFolder(Trim(ensured[i].name)) # NoMatch
           /\ categorizeFolder(Trim(ensured[i].name)).isHierarchy

\* a seeded school level, a grade, a subject by position and a unit below it
LessonFolders == <<"F1", "F2", "F3", "F4">>
LessonSubjectNames == {NameUnit1, NameIELTS}
LessonUnitNames == {NameN1, NameN2}

LessonInit ==
    /\ InitTables
    /\ Nominal
    /\ folderParent = [f \in SeqToSet(LessonFolders) |->
                          IF f = "F1" THEN ROOT_FOLDER_ID
                          ELSE LessonFolders[(CHOOSE i \in DOMAIN LessonFolders :
                                                  LessonFolders[i] = f) - 1]]
    /\ \E s \in LessonSubjectNames : \E u \in LessonUnitNames :
           folderName = [f \in SeqToSet(LessonFolders) |->
                            CASE f = "F1" -> NameAL
                              [] f = "F2" -> NameGrade12
                              [] f = "F3" -> s
                              [] OTHER -> u]
    /\ fileParent \in [Files -> SeqToSet(LessonFolders) \cup {ROOT_FOLDER_ID}]
    /\ fileName \in [Files -> MigrationFileNames]

LessonNext ==
    \/ Seed
    \/ MigratorRun
    \/ MigratorListFolder
    \/ MigratorVisitFolder
    \/ MigrateFile
    \/ MigratorFinish

LessonSpec == LessonInit /\ [][LessonNext]_vars

\* the tags stored for the folder named n in group g
TagsNamed(n, g) == {i \in DOMAIN tags : tags[i].group = g /\ EqualsInsensitive(tags[i].name, n)}

\* C24: the tag of a folder of a hierarchy group is ensured with the tag of the nearest
\* enclosing hierarchy folder as parentId: the LESSON tag the migrator stores for the
\* unit folder is a child of the SUBJECT tag of the folder that encloses it
LessonBelowSubject ==
    \A i \in TagsNamed(folderName["F4"], "LESSON") :
        tags[i].parentId \in TagsNamed(folderName["F3"], "SUBJECT")

\* the migrator has stored the subject and the unit of a file
LessonStored ==
    /\ TagsNamed(folderName["F4"], "LESSON") # {}
    /\ TagsNamed(folderName["F3"], "SUBJECT") # {}

\* the entries of TagPatterns whose pattern matches the trimmed name
TableHits(name) == {i \in 1..Len(TagPatterns) : PatternTest(i, Trim(name))}

\* the test categorizeFolder makes ahead of the table
SubjectsCatchAll(name) == EndsWithSubjects(Trim(name)) /\ ~StartsWithOLAL(Trim(name))

\* the group of the first entry of TagPatterns that matches, "null" when none does
FirstTableGroup(name) ==
    IF TableHits(name) = {} THEN "null"
    ELSE TagPatterns[CHOOSE i \in TableHits(name) : \A j \in TableHits(name) : i <= j].group

\* C25 as stated: categorizeFolder(name) returns the first entry of TagPatterns, in table
\* order, that matches the trimmed name, and null when no entry of the table matches
FirstTableMatchWins ==
    probe.category # "pending" => probe.category = FirstTableGroup(probe.name)

\* C25, amended: categorizeFolder(name) returns LEVEL for a trimmed name that ends in
\* "Subjects" and does not start with O/L or A/L; for any other name it returns the first
\* entry of TagPatterns, in table order, that matches, and null when none does; padding
\* around the name does not change the result
FirstMatchWins ==
    probe.category # "pending" =>
        /\ SubjectsCatchAll(probe.name) => probe.category = "LEVEL"
        /\ ~SubjectsCatchAll(probe.name) => probe.category = FirstTableGroup(probe.name)
        /\ probe.category = categorizeFolderOf(Trim(probe.name)).group

\* a padded name that ends in "Subjects" and matches no entry of the table has been classified
FirstMatchWinsWitness ==
    /\ probe.category = "LEVEL"
    /\ probe.name # Trim(probe.name)
    /\ SubjectsCatchAll(probe.name)
    /\ TableHits(probe.name) = {}

\* C26: categorizeFolder returns the LESSON group for a unit marker ("Unit N", "Lesson N",
\* "Chapter N", a leading "NN." or "NN -")
LessonRule ==
    (probe.category # "pending" /\ Trim(probe.name) \in UnitMarkers) => probe.category = "LESSON"

\* a unit marker has been classified
LessonRuleProbed ==
    probe.category # "pending" /\ Trim(probe.name) \in UnitMarkers

\* the step is a call of upsertFileResource in which a database call throws
UpsertFailStep == AtEntry /\ ~Entry.isFolder /\ faults' = faults - 1

\* the run that ends had a failed upsert and no other failure
OnlyUpsertFailed ==
    /\ phase = "sync" /\ phase' = "idle"
    /\ stats.errorsEncountered >= 1
    /\ FailedListings = {} /\ FailedEntries = {}

\* C28: when the upsert of a file fails, errorsEncountered goes up by one, filesUpserted
\* stays, no row changes, the loop of processFolder goes on with the entry after the
\* file, and by the end of the run every entry of every folder walked has been processed
FileIsolation ==
    [][/\ UpsertFailStep =>
              /\ stats'.errorsEncountered = stats.errorsEncountered + 1
              /\ stats'.filesUpserted = stats.filesUpserted
              /\ UNCHANGED <<tags, resources>>
              /\ stack' = Unwind(Advance(stack))
              /\ ~(Top.idx < Len(Top.files)) \/
                     (/\ Len(stack') = Len(stack)
                      /\ stack'[Len(stack')].idx = Top.idx + 1)
       /\ OnlyUpsertFailed =>
              /\ stats.filesUpserted + stats.errorsEncountered
                     = Cardinality({i \in DOMAIN processed : processed[i].id \in Files})
              /\ \A f \in Folders \cup {ROOT_FOLDER_ID} :
                     [i \in DOMAIN HandledIn(f) |-> HandledIn(f)[i].id]
                         = [i \in DOMAIN Listing(f) |-> Listing(f)[i].id]]_vars

\* a run is over in which the upsert of a file failed and a folder listed after the file
\* was walked
FileIsolationWitness ==
    /\ Summarised
    /\ "errorsEncountered" \in DOMAIN stats /\ stats.errorsEncountered = 1
    /\ stats.filesUpserted = 0
    /\ FailedListings = {} /\ FailedEntries = {}
    /\ \E a, b \in DOMAIN processed :
           /\ a < b
           /\ processed[a].id \in Files
           /\ processed[b].folder = processed[a].folder

(***************************************************************************)
(* Resyncs of a tree in which a folder bears the name of a tag that an     *)
(* administrator made                                                      *)
(***************************************************************************)
UserTagFolderNames == {UserTagName, NameGrade12}

UserTagInit ==
    /\ InitTables
    /\ Nominal
    /\ folderParent \in Trees
    /\ folderName \in [Folders -> UserTagFolderNames]
    /\ fileParent \in [Files -> Folders \cup {ROOT_FOLDER_ID}]
    /\ fileName = [x \in Files |-> NameN1]

\* the owner of the remote tree renames a folder
RenameFolder ==
    /\ phase = "idle" /\ edits < MaxEdits /\ 0 < runs /\ runs < MaxRuns
    /\ \E f \in Folders : \E n \in UserTagFolderNames :
           /\ n # folderName[f]
           /\ folderName' = [folderName EXCEPT ![f] = n]
    /\ edits' = edits + 1
    /\ clean' = FALSE
    /\ UNCHANGED <<auxVars, walkLog, tags, resources, users, folderParent, fileParent, fileName,
                   migratorVars, syncProbes, phase, stack, stats, runs, userTags, seeded, base>>

UserTagNext ==
    \/ Seed
    \/ StartSync
    \/ ListFolder
    \/ VisitHierarchyFolder
    \/ VisitUnmatchedFolder
    \/ VisitFile
    \/ FinishSync
    \/ AdminTagResource
    \/ RenameFolder

UserTagSpec == UserTagInit /\ [][UserTagNext]_vars

\* C30: a step of a sync run changes no Tag row whose source is USER, and the tag list a
\* file is upserted with holds no USER tag
UserTagsUntouched ==
    [][phase = "sync" =>
          \A i \in DOMAIN tags :
              tags[i].source = "USER" =>
                  /\ tags'[i] = tags[i]
                  /\ UpsertStep => i \notin SeqToSet(lastUpsert'.hierarchyTagIds)]_vars

\* a sync run has met a folder that bears the name of a USER tag
UserTagMet ==
    /\ phase = "sync"
    /\ \E i \in DOMAIN tags : \E k \in DOMAIN ensured :
           tags[i].source = "USER" /\ ensured[k].name = tags[i].name

(***************************************************************************)
(* DriveMigration, the copy-based migration script: migrate() and          *)
(* processFolder(), one step per awaited call                              *)
(***************************************************************************)
\* /^(syllabus|teacher.*guide|past\s*papers?|model\s*papers?|notes?|short\s*notes?|tute|...)$/i;
\* the two alternatives in Sinhala script match no name written in Latin letters
LegacyResourceTypePattern(s) ==
    LET opt(P) == P \cup Lit(s, P, <<"s">>)
        syll  == Lit(s, {1}, <<"s","y","l","l","a","b","u","s">>)
        guide == Lit(s, Star(s, Lit(s, {1}, <<"t","e","a","c","h","e","r">>), AnyChar),
                     <<"g","u","i","d","e">>)
        past  == opt(Lit(s, Spaces(s, Lit(s, {1}, <<"p","a","s","t">>)), <<"p","a","p","e","r">>))
        model == opt(Lit(s, Spaces(s, Lit(s, {1}, <<"m","o","d","e","l">>)), <<"p","a","p","e","r">>))
        notes == opt(Lit(s, {1}, <<"n","o","t","e">>))
        short == opt(Lit(s, Spaces(s, Lit(s, {1}, <<"s","h","o","r","t">>)), <<"n","o","t","e">>))
        tute  == Lit(s, {1}, <<"t","u","t","e">>)
    IN  AtEnd(s, syll \cup guide \cup past \cup model \cup notes \cup short \cup tute)

\* /^grade\s*\d+/i
LegacyGradePattern(s) == One(s, Spaces(s, Lit(s, {1}, <<"g","r","a","d","e">>)), IsDigit) # {}

\* /^(unit|lesson|chapter|module|section|part)(\s+\d+)?|^\d+[\.\-—\s].*$/i
LegacyLessonPattern(s) ==
    \/ \E w \in {<<"u","n","i","t">>, <<"l","e","s","s","o","n">>, <<"c","h","a","p","t","e","r">>,
                 <<"m","o","d","u","l","e">>, <<"s","e","c","t","i","o","n">>, <<"p","a","r","t">>} :
           Lit(s, {1}, w) # {}
    \/ AtEnd(s, Star(s, One(s, Star(s, One(s, {1}, IsDigit), IsDigit),
                            LAMBDA c : c \in {".", "-"} \/ IsSpace(c)), AnyChar))

detectTagGroup(text) ==
    LET name == Trim(ToLowerCase(text))
    IN  IF ContainsInsensitive(name, <<"s","t","r","e","a","m">>) THEN "Stream"
        ELSE IF LegacyResourceTypePattern(name) THEN "ResourceType"
        ELSE IF LegacyGradePattern(name) THEN "Grade"
        ELSE IF ContainsInsensitive(name, <<"m","e","d","i","u","m">>) THEN "Medium"
        ELSE IF LegacyLessonPattern(name) THEN "Lesson"
        ELSE "Subject"

\* every outcome of DriveMigration.ensureTag(name, group): the row of that name, else a new one
LegacyEnsureTag(tgs, name, group) ==
    LET cleanName == Trim(name)
        existing  == {i \in DOMAIN tgs : tgs[i].name = cleanName}
    IN  IF existing # {}
        THEN {[tags |-> tgs, id |-> i, created |-> FALSE] : i \in existing}
        ELSE {[tags |-> Append(tgs, [name |-> cleanName, slug |-> BaseSlug(cleanName),
                                     group |-> group, source |-> "SYSTEM", parentId |-> NULL]),
               id |-> Len(tgs) + 1, created |-> TRUE]}

ZeroLegacyStats == [foldersScanned |-> 0, filesProcessed |-> 0, filesMigrated |-> 0,
                    filesSkipped |-> 0, tagsCreated |-> 0, errorsEncountered |-> 0]

\* the id drive.files.copy gives the next copy: a new file of the upload folder
NextCopyId == CopyIds[Len(copies) + 1]

LegacyAtEntry == phase = "legacy" /\ InLoop

LegacyMigrate ==
    /\ phase = "idle"
    /\ runs < MaxRuns
    /\ rootConfigured
    /\ phase' = "legacy"
    /\ runs' = runs + 1
    /\ users' = users \cup {"system-sync"}
    /\ stack' = <<Frame(ROOT_FOLDER_ID, [tagIds |-> <<>>], 0)>>
    /\ stats' = ZeroLegacyStats
    /\ base' = BaseOfRun
    /\ clean' = FALSE
    /\ requested' = <<>>
    /\ processed' = <<>>
    /\ outcome' = "none"
    /\ UNCHANGED <<auxVars, tags, resources, treeVars, envVars, migratorVars, syncProbes>>

LegacyListFolder ==
    /\ phase = "legacy" /\ AtList
    /\ LET files == PageOf(Top.folderId, Top.page + 1)
       IN  /\ stack' = Unwind(Respond(stack))
           /\ stats' = [stats EXCEPT !.filesProcessed = @ + Len(files)]
    /\ requested' = Requested(200)
    /\ UNCHANGED <<auxVars, tags, resources, users, treeVars, envVars, migratorVars, syncProbes,
                   phase, runs, clean, base, processed, outcome>>

LegacyVisitFolder ==
    /\ LegacyAtEntry /\ Entry.isFolder
    /\ \E r \in LegacyEnsureTag(tags, Entry.name, detectTagGroup(Entry.name)) :
           /\ tags' = r.tags
           /\ stack' = Append(Advance(stack),
                              Frame(Entry.id, [tagIds |-> Append(Top.ctx.tagIds, r.id)],
                                    Top.depth + 1))
           /\ stats' = [stats EXCEPT !.foldersScanned = @ + 1,
                                     !.tagsCreated = @ + (IF r.created THEN 1 ELSE 0)]
    /\ processed' = Handled(TRUE)
    /\ UNCHANGED <<auxVars, resources, users, treeVars, envVars, migratorVars, syncProbes,
                   phase, runs, clean, base, requested, outcome>>

\* the file branch: copyFileToUploadFolder, the lookup by the id of the copy, the create
LegacyMigrateFile ==
    /\ LegacyAtEntry /\ ~Entry.isFolder
    /\ Len(copies) < Len(CopyIds)
    /\ copies' = Append(copies, [of |-> Entry.id, name |-> Entry.name, path |-> <<>>])
    /\ IF ResourcesByDriveFileId(resources, NextCopyId) # {}
       THEN /\ stats' = [stats EXCEPT !.filesSkipped = @ + 1]
            /\ resources' = resources
       ELSE /\ resources' = Append(resources,
                                   [NewSyncResource(Entry, Top.ctx.tagIds)
                                       EXCEPT !.driveFileId = NextCopyId])
            /\ stats' = [stats EXCEPT !.filesMigrated = @ + 1]
    /\ stack' = Unwind(Advance(stack))
    /\ processed' = Handled(TRUE)
    /\ UNCHANGED <<auxVars, tags, users, treeVars, envVars, uniqueFileLog, syncProbes,
                   phase, runs, clean, base, requested, outcome>>

\* drive.files.copy throws: copyFileToUploadFolder returns null, the error is counted and
\* the loop goes on
LegacyCopyFails ==
    /\ LegacyAtEntry /\ ~Entry.isFolder
    /\ faults > 0
    /\ faults' = faults - 1
    /\ stats' = [stats EXCEPT !.errorsEncountered = @ + 1]
    /\ stack' = Unwind(Advance(stack))
    /\ processed' = Handled(TRUE)
    /\ UNCHANGED <<deployVars, tags, resources, users, treeVars, envVars, migratorVars,
                   syncProbes, phase, runs, clean, base, requested, outcome>>

LegacyFinish ==
    /\ phase = "legacy" /\ stack = <<>>
    /\ phase' = "idle"
    /\ clean' = TRUE
    /\ outcome' = "summary"
    /\ UNCHANGED <<auxVars, tags, resources, users, treeVars, envVars, migratorVars, syncProbes,
                   stack, stats, runs, base, requested, processed>>

LegacyInit ==
    /\ InitTables
    /\ links = {} /\ rootConfigured = TRUE /\ pageSize = PageSize
    /\ writers = <<>> /\ probe = <<>>
    /\ faults \in 0..MaxFaults
    /\ folderParent \in Trees
    /\ folderName \in {fn \in [Folders -> KnownNames] :
                           /\ fn["F1"] \in {NameGrade12, NameScienceStream}
                           /\ fn["F2"] \in {NameNotes, NameEnglishMedium}
                           /\ fn["F3"] \in {NameUnit1, NameBiology}}
    /\ fileParent \in [Files -> Folders \cup {ROOT_FOLDER_ID}]
    /\ fileName = [x \in Files |-> NameN1]

LegacyNext ==
    \/ LegacyMigrate
    \/ LegacyListFolder
    \/ LegacyVisitFolder
    \/ LegacyMigrateFile
    \/ LegacyCopyFails
    \/ LegacyFinish

LegacySpec == LegacyInit /\ [][LegacyNext]_vars

\* the copies made of source file x, and the Resource rows stored for them
CopiesOf(x) == {i \in DOMAIN copies : copies[i].of = x}
ResourcesOf(x) == {r \in DOMAIN resources : \E i \in CopiesOf(x) : resources[r].driveFileId = CopyIds[i]}

\* C29: a source file has at most one copy in the upload folder and at most one Resource
\* row, however many runs of the copy-based migration have met it
MigratedOnce ==
    \A x \in Files : Cardinality(CopiesOf(x)) <= 1 /\ Cardinality(ResourcesOf(x)) <= 1

\* a second run has met a file that the first run migrated
MigratedMetAgain ==
    /\ runs = 2 /\ phase = "legacy"
    /\ \E i \in DOMAIN processed : processed[i].id \in Files /\ CopiesOf(processed[i].id) # {}

(***************************************************************************)
(* LibraryService.browse(filters) over the database the tools leave        *)
(***************************************************************************)
\* take: 500
BrowseTake == 500

\* the values of the filters of a request
BrowseValues == {NameAL, NameGrade12, <<"g","r","a","d","e","-","1","2">>, NameYear}
BrowseFilters == {F \in SUBSET BrowseValues : Cardinality(F) <= 2}

\* the candidates: every non-empty filter value, in lower case
CandidateTags(filters) == {ToLowerCase(v) : v \in {w \in filters : w # <<>>}}

\* where: { parentId: currentParentId, source: "SYSTEM", OR: [name in candidates, slug in candidates] }
NextNodes(tgs, candidates, currentParentId) ==
    {i \in DOMAIN tgs : /\ tgs[i].parentId = currentParentId
                        /\ tgs[i].source = "SYSTEM"
                        /\ \/ ToLowerCase(tgs[i].name) \in candidates
                           \/ ToLowerCase(tgs[i].slug) \in candidates}

\* 1. the drill-down: every node the loop can end at, findFirst returning any match
RECURSIVE ResolveNode(_, _, _, _)
ResolveNode(tgs, candidates, currentParentId, depth) ==
    IF candidates = {} \/ depth >= 10 \/ NextNodes(tgs, candidates, currentParentId) = {}
    THEN {currentParentId}
    ELSE UNION {ResolveNode(tgs,
                            candidates \ {ToLowerCase(tgs[i].name), ToLowerCase(tgs[i].slug)},
                            i, depth + 1) :
                  i \in NextNodes(tgs, candidates, currentParentId)}

\* 2. findMany({ where: { parentId: currentParentId, source: "SYSTEM" } })
ChildTags(tgs, currentParentId) ==
    {i \in DOMAIN tgs : tgs[i].parentId = currentParentId /\ tgs[i].source = "SYSTEM"}

\* 3. the result sets findMany can return under the resource query and take
FetchedResources(res, currentParentId) ==
    LET matching == {x \in DOMAIN res : /\ res[x].source = "SYSTEM"
                                        /\ res[x].status = "APPROVED"
                                        /\ currentParentId # NULL => currentParentId \in res[x].tags}
    IN  IF Cardinality(matching) <= BrowseTake THEN {matching}
        ELSE {S \in SUBSET matching : Cardinality(S) = BrowseTake}

\* a listing that does not hide the files of the subfolders
LooseResourcesUnfiltered(res, fetched, childTagIds) == fetched

\* 4. the fetched resources that bear no tag of a child folder
LooseResources(res, fetched, childTagIds) ==
    {x \in fetched : ~(childTagIds # {} /\ res[x].tags \cap childTagIds # {})}

\* the tags of a loose resource that are counted as facets
IsFacetTag(tg) == tg.group \notin {"null", ""} /\ tg.group \notin HierarchyGroups

Facets(tgs, res, loose) ==
    LET uses == {<<x, t>> \in loose \X DOMAIN tgs : t \in res[x].tags /\ IsFacetTag(tgs[t])}
    IN  {[group |-> tgs[u[2]].group, name |-> tgs[u[2]].name,
          count |-> Cardinality({v \in uses : /\ tgs[v[2]].group = tgs[u[2]].group
                                              /\ tgs[v[2]].name = tgs[u[2]].name})] : u \in uses}

\* 5. folders grouped by tag.group || "Navigation"
GroupedFolders(tgs, childTagIds) ==
    {[group |-> IF tgs[i].group \in {"null", ""} THEN "Navigation" ELSE tgs[i].group,
      id |-> i, name |-> tgs[i].name, slug |-> tgs[i].slug] : i \in childTagIds}

\* every response of browse(filters) on the tables; node is the tag the drill-down ended at
browse(tgs, res, filters) ==
    UNION {{[filters |-> filters,
             node |-> node,
             currentLevel |-> IF node = NULL THEN <<"L","i","b","r","a","r","y">>
                              ELSE tgs[node].name,
             folders |-> GroupedFolders(tgs, ChildTags(tgs, node)),
             facets |-> Facets(tgs, res, LooseResources(res, fetched, ChildTags(tgs, node))),
             resources |-> LooseResources(res, fetched, ChildTags(tgs, node))] :
              fetched \in FetchedResources(res, node)} :
           node \in ResolveNode(tgs, CandidateTags(filters), NULL, 0)}

\* a client browses the library
Browse ==
    /\ \E filters \in BrowseFilters : \E response \in browse(tags, resources, filters) :
           probe' = response
    /\ UNCHANGED <<tags, resources, users, treeVars, envVars, migratorVars, syncProbes, walkLog,
                   runVars, links, rootConfigured, pageSize, faults, writers>>

BrowseFolderNames == [F1 |-> NameAL, F2 |-> NameGrade12, F3 |-> NameYear]

BrowseInit ==
    /\ InitTables
    /\ Nominal
    /\ folderParent \in {fp \in Trees : fp["F1"] = ROOT_FOLDER_ID /\ fp["F2"] = "F1"}
    /\ folderName = BrowseFolderNames
    /\ fileParent \in [Files -> Folders]
    /\ fileName \in [Files -> MigrationFileNames]

BrowseNext ==
    \/ Seed
    \/ StartSync
    \/ ListFolder
    \/ VisitHierarchyFolder
    \/ VisitAttributeFolder
    \/ VisitUnmatchedFolder
    \/ VisitFile
    \/ FinishSync
    \/ MigratorRun
    \/ MigratorListFolder
    \/ MigratorVisitFolder
    \/ MigrateFile
    \/ MigratorFinish
    \/ AdminTagResource
    \/ Browse

BrowseSpec == BrowseInit /\ [][BrowseNext]_vars

\* C27: the folders of a response of browse are exactly the SYSTEM tags whose parentId is
\* the node resolved; every resource returned bears the tag of that node, when one was
\* resolved, and no tag of a returned folder; every facet is a tag of a group outside the
\* hierarchy that one of the returned resources bears
BrowseLooseFiles ==
    [][probe' # probe =>
          LET shown == {f.id : f \in probe'.folders}
          IN  /\ shown = {i \in DOMAIN tags : tags[i].source = "SYSTEM"
                                               /\ tags[i].parentId = probe'.node}
              /\ \A x \in probe'.resources :
                     /\ x \in DOMAIN resources
                     /\ probe'.node # NULL => probe'.node \in resources[x].tags
                     /\ resources[x].tags \cap shown = {}
              /\ \A f \in probe'.facets :
                     /\ f.group \notin HierarchyGroups
                     /\ \E x \in probe'.resources : \E t \in resources[x].tags :
                            tags[t].group = f.group /\ tags[t].name = f.name]_vars

\* a response for a resolved node with a folder, a loose resource and a facet
BrowseLooseFilesWitness ==
    /\ probe # <<>>
    /\ probe.node # NULL
    /\ probe.folders # {} /\ probe.resources # {} /\ probe.facets # {}

\* a response that hides a resource of the node because it lies in a subfolder
BrowseHidesNested ==
    /\ probe # <<>>
    /\ probe.node # NULL
    /\ \E x \in DOMAIN resources :
           /\ probe.node \in resources[x].tags
           /\ x \notin probe.resources
           /\ \E f \in probe.folders : f.id \in resources[x].tags

====
